---- MODULE Spec2Model ----
(***************************************************************************)
(* Cross-Based Cost Aggregation (pandora/aggregation/cbca.py).             *)
(*                                                                         *)
(* Arrays are functions over 0-based index ranges, as in the source.       *)
(* float32 values are modelled by exact integers (rasters, costs, prefix   *)
(* sums) plus the two non-finite markers Inf and NaN; a quotient is kept   *)
(* as the pair <<numerator, denominator>>.                                 *)
(***************************************************************************)
EXTENDS Integers, Sequences, FiniteSets, TLC

VARIABLES pc,              \* position in the call being modelled
          cfg,             \* keyword arguments handed to the constructor
          self_cfg,        \* self.cfg
          attrs,           \* names of the attributes the instance has
          img_left,        \* left image dataset
          img_right,       \* right image dataset
          img_right_shift, \* list returned by shift_right_img
          left_masked,     \* prepared left raster handed to cross_support
          right_masked,    \* prepared right rasters, one per subpixel shift
          cbca_distance,   \* self._cbca_distance (len_arms)
          cbca_intensity,  \* self._cbca_intensity
          cross_left,      \* left cross support tensor
          cross_right,     \* list of right cross support tensors
          cv,              \* the cost volume dataset: data, disp, attrs
          cost_in,         \* history: cv.data as it was when the call started
          applied,         \* history: the dataset after each completed call
          patch,           \* a call of compute_mean_patch: arguments and outcome
          agg,             \* aggregated volume being built, axes (disp, col, row)
          layers,          \* the layers the for statement iterates over, in order
          d,               \* index of the layer being processed
          step1,           \* horizontal integral image of the layer
          step2,           \* horizontal matching cost of the layer
          sum2,            \* support count after step 2
          step3,           \* vertical integral image of the layer
          step4,           \* aggregated cost of the layer
          sum4             \* support count after step 4

instance == <<cfg, self_cfg, attrs, cbca_distance, cbca_intensity>>
images == <<img_left, img_right, img_right_shift, left_masked, right_masked>>
inputs == <<instance, images>>
layer == <<step1, step2, sum2, step3, step4, sum4>>
vars == <<pc, cfg, self_cfg, attrs, img_left, img_right, img_right_shift,
          left_masked, right_masked, cbca_distance, cbca_intensity,
          cross_left, cross_right, cv, cost_in, applied, patch, agg, layers, d,
          step1, step2, sum2, step3, step4, sum4>>

(***************************************************************************)
(* Bounds of the model.                                                    *)
(***************************************************************************)
Rows == 3
Cols == 3
MaxLen == 3
MaxIntensity == 2
MaxOdd == 2
MaxUniform == 5
NbDisp == 2
MaxCost == 3

\* Shape of a 2-D array.
NRows(a) == Cardinality(DOMAIN a)
NCols(a) == Cardinality(DOMAIN a[0])

(***************************************************************************)
(* Values.                                                                 *)
(***************************************************************************)
Inf == 0 - 1

isfinite(v) == v # Inf

Max(a, b) == IF a >= b THEN a ELSE b
Min(a, b) == IF a <= b THEN a ELSE b
Abs(a) == IF a < 0 THEN 0 - a ELSE a

\* Variant of AbsDiffGE: a difference equal to the threshold does not stop the walk.
AbsDiffGT(anchor, sample, intensity) ==
    IF isfinite(anchor) /\ isfinite(sample) THEN Abs(anchor - sample) > intensity
    ELSE ~(anchor = Inf /\ sample = Inf)

\* abs(anchor - sample) >= intensity in IEEE arithmetic: a finite anchor
\* against +inf gives +inf (true); inf - inf gives NaN, which compares false.
AbsDiffGE(anchor, sample, intensity) ==
    IF isfinite(anchor) /\ isfinite(sample) THEN Abs(anchor - sample) >= intensity
    ELSE ~(anchor = Inf /\ sample = Inf)

\* Python range(start, stop, step) as a sequence.
RECURSIVE range(_, _, _)
range(start, stop, step) ==
    IF (step > 0 /\ start >= stop) \/ (step < 0 /\ start <= stop) THEN << >>
    ELSE <<start>> \o range(start + step, stop, step)

(***************************************************************************)
(* cross_support                                                           *)
(***************************************************************************)
\* One arm's for-loop over the probed samples (in probing order).  Returns
\* the number of accepted samples and the position (in samples) of the last
\* value taken by the loop variable, 0 when the range was empty.
RECURSIVE ArmWalk(_, _, _, _)
ArmWalk(anchor, samples, intensity, i) ==
    IF i > Len(samples) THEN [len |-> i - 1, last |-> i - 1]
    ELSE IF AbsDiffGE(anchor, samples[i], intensity) THEN [len |-> i - 1, last |-> i]
    ELSE ArmWalk(anchor, samples, intensity, i + 1)

\* The sample the loop variable designates after the loop: the loop variable
\* is initialised to the anchor's own index before the for statement.
LoopVarValue(anchor, samples, w) == IF w.last = 0 THEN anchor ELSE samples[w.last]

\* max(len, 1 * (neighbour exists) * isfinite(image[loop variable]))
Arm(anchor, samples, exists, intensity) ==
    LET w == ArmWalk(anchor, samples, intensity, 1)
    IN  Max(w.len, IF exists /\ isfinite(LoopVarValue(anchor, samples, w)) THEN 1 ELSE 0)

\* Variant of ProbeIdx: the walk probes len_arms samples instead of len_arms - 1.
ProbeIdxInclusive(ny, nx, y, x, len_arms, dir) ==
    CASE dir = 0 -> range(x - 1, Max(x - len_arms - 1, 0 - 1), 0 - 1)
      [] dir = 1 -> range(x + 1, Min(x + len_arms + 1, nx), 1)
      [] dir = 2 -> range(y - 1, Max(y - len_arms - 1, 0 - 1), 0 - 1)
      [] dir = 3 -> range(y + 1, Min(y + len_arms + 1, ny), 1)

\* Indices probed by each of the four loops of pixel (y, x).
ProbeIdx(ny, nx, y, x, len_arms, dir) ==
    CASE dir = 0 -> range(x - 1, Max(x - len_arms, 0 - 1), 0 - 1)
      [] dir = 1 -> range(x + 1, Min(x + len_arms, nx), 1)
      [] dir = 2 -> range(y - 1, Max(y - len_arms, 0 - 1), 0 - 1)
      [] dir = 3 -> range(y + 1, Min(y + len_arms, ny), 1)

Samples(image, ny, nx, y, x, len_arms, dir) ==
    LET idx == ProbeIdx(ny, nx, y, x, len_arms, dir)
    IN  [k \in 1..Len(idx) |-> IF dir < 2 THEN image[y][idx[k]] ELSE image[idx[k]][x]]

\* Variant of NeighbourExists: the border tests of the minimum-length rule are dropped.
NeighbourAlways(ny, nx, y, x, dir) == TRUE

NeighbourExists(ny, nx, y, x, dir) ==
    CASE dir = 0 -> x >= 1
      [] dir = 1 -> x < nx - 1
      [] dir = 2 -> y >= 1
      [] dir = 3 -> y < ny - 1

\* Variant of cross_support: the arms of non-finite pixels are computed too.
cross_support_unguarded(image, ny, nx, len_arms, intensity) ==
    [y \in 0..(ny - 1) |-> [x \in 0..(nx - 1) |-> [dir \in 0..3 |->
        Arm(image[y][x], Samples(image, ny, nx, y, x, len_arms, dir),
            NeighbourExists(ny, nx, y, x, dir), intensity)]]]

cross_support(image, ny, nx, len_arms, intensity) ==
    [y \in 0..(ny - 1) |-> [x \in 0..(nx - 1) |-> [dir \in 0..3 |->
        IF isfinite(image[y][x])
        THEN Arm(image[y][x], Samples(image, ny, nx, y, x, len_arms, dir),
                 NeighbourExists(ny, nx, y, x, dir), intensity)
        ELSE 0]]]

(***************************************************************************)
(* Rasters of the model: a base raster of zeros in which at most MaxOdd    *)
(* pixels take another value.                                              *)
(***************************************************************************)
Pixels(ny, nx) == (0..(ny - 1)) \X (0..(nx - 1))

OddSets(ny, nx, k) == {S \in SUBSET Pixels(ny, nx) : Cardinality(S) <= k}

Rasters(ny, nx, values, k) ==
    UNION {{[y \in 0..(ny - 1) |-> [x \in 0..(nx - 1) |->
                IF <<y, x>> \in S THEN f[<<y, x>>] ELSE 0]] : f \in [S -> values]}
           : S \in OddSets(ny, nx, k)}

RasterValues == {1, 2, Inf}

(***************************************************************************)
(* Configuration: __init__ and check_conf.  A configuration is a function  *)
(* from the keys present to typed values; a typed value carries its Python *)
(* type, and its number or its string.                                     *)
(***************************************************************************)
PyStr(t) == [type |-> "str", num |-> 0, str |-> t]
PyFloat(n) == [type |-> "float", num |-> n, str |-> ""]
PyInt(n) == [type |-> "int", num |-> n, str |-> ""]

\* _CBCA_INTENSITY and _CBCA_DISTANCE, the default configuration.
CBCA_INTENSITY == 30
CBCA_DISTANCE == 5

SchemaKeys == {"aggregation_method", "cbca_intensity", "cbca_distance"}

Conf(method, intensity, distance) ==
    [k \in SchemaKeys |->
        CASE k = "aggregation_method" -> method
          [] k = "cbca_intensity" -> intensity
          [] k = "cbca_distance" -> distance]

DefaultOf(k) == IF k = "cbca_intensity" THEN PyFloat(CBCA_INTENSITY) ELSE PyInt(CBCA_DISTANCE)

\* Variant of WithDefaults: the two keys are set to the defaults whether the
\* caller supplied them or not.
WithDefaultsForced(kw) ==
    [k \in DOMAIN kw \cup {"cbca_intensity", "cbca_distance"} |->
        IF k \in {"cbca_intensity", "cbca_distance"} THEN DefaultOf(k) ELSE kw[k]]

\* Lines 66-69: a missing key receives its default value.
WithDefaults(kw) ==
    [k \in DOMAIN kw \cup {"cbca_intensity", "cbca_distance"} |->
        IF k \in DOMAIN kw THEN kw[k] ELSE DefaultOf(k)]

\* bool(t) of a Python string.
Truthy(t) == t # ""

\* And(str, lambda x: 'cbca'): the lambda returns the string 'cbca' for every x.
MethodOk(v) == v.type = "str" /\ Truthy("cbca")

\* Variant of IntensityOk: the type is not tested.
IntensityOkAnyType(v) == v.type # "str" /\ v.num > 0

\* And(float, lambda x: x > 0)
IntensityOk(v) == v.type = "float" /\ v.num > 0

\* And(int, lambda x: x > 0)
DistanceOk(v) == v.type = "int" /\ v.num > 0

\* Checker(schema).validate(cfg): every key of the schema is present and
\* its value passes.
Validates(c) ==
    /\ SchemaKeys \subseteq DOMAIN c
    /\ MethodOk(c["aggregation_method"])
    /\ IntensityOk(c["cbca_intensity"])
    /\ DistanceOk(c["cbca_distance"])

\* self.cfg, self._cbca_intensity, self._cbca_distance
AllAttrs == {"cfg", "_cbca_intensity", "_cbca_distance"}

\* The instance of a call: constructed from a configuration holding the
\* values of cbca_intensity and cbca_distance.
InstanceOf ==
    /\ cfg = Conf(PyStr("cbca"), PyFloat(cbca_intensity), PyInt(cbca_distance))
    /\ self_cfg = cfg
    /\ attrs = AllAttrs

\* A machine that handles no image dataset and has completed no call.
NoDatasets ==
    /\ img_left = << >>
    /\ img_right = << >>
    /\ img_right_shift = << >>
    /\ applied = << >>

(***************************************************************************)
(* cross_support applied to one raster.                                    *)
(***************************************************************************)
InitCross ==
    /\ pc = "cross_support"
    /\ left_masked \in Rasters(Rows, Cols, RasterValues, MaxOdd)
    /\ right_masked = << >>
    /\ cbca_distance \in 1..MaxLen
    /\ cbca_intensity \in 1..MaxIntensity
    /\ InstanceOf
    /\ NoDatasets
    /\ cross_left = << >>
    /\ cross_right = << >>
    /\ cv = << >>
    /\ cost_in = << >>
    /\ agg = << >>
    /\ patch = << >>
    /\ layers = << >>
    /\ d = 0
    /\ step1 = << >> /\ step2 = << >> /\ sum2 = << >>
    /\ step3 = << >> /\ step4 = << >> /\ sum4 = << >>

CallCrossSupport ==
    /\ pc = "cross_support"
    /\ cross_left' = cross_support(left_masked, NRows(left_masked), NCols(left_masked),
                                   cbca_distance, cbca_intensity)
    /\ pc' = "cross_done"
    /\ UNCHANGED <<patch, layers, inputs, applied, cross_right, cv, cost_in, agg, d, layer>>

NextCross == CallCrossSupport

SpecCross == InitCross /\ [][NextCross]_vars

(***************************************************************************)
(* cross_support applied to a raster of any shape whose values are all     *)
(* equal and finite.                                                       *)
(***************************************************************************)
InitUniform ==
    /\ pc = "cross_support"
    /\ \E ny \in 1..MaxUniform, nx \in 1..MaxUniform, v \in 0..1 :
         left_masked = [y \in 0..(ny - 1) |-> [x \in 0..(nx - 1) |-> v]]
    /\ right_masked = << >>
    /\ cbca_distance \in 1..MaxLen
    /\ cbca_intensity \in 1..MaxIntensity
    /\ InstanceOf
    /\ NoDatasets
    /\ cross_left = << >>
    /\ cross_right = << >>
    /\ cv = << >>
    /\ cost_in = << >>
    /\ agg = << >>
    /\ patch = << >>
    /\ layers = << >>
    /\ d = 0
    /\ step1 = << >> /\ step2 = << >> /\ sum2 = << >>
    /\ step3 = << >> /\ step4 = << >> /\ sum4 = << >>

SpecUniform == InitUniform /\ [][NextCross]_vars

(***************************************************************************)
(* Properties of cross_support (SpecCross, SpecUniform).                   *)
(***************************************************************************)
CrossDone == pc = "cross_done"

\* Distance from pixel (y, x) to the image border in direction dir.
Dist(ny, nx, y, x, dir) ==
    CASE dir = 0 -> x
      [] dir = 1 -> nx - 1 - x
      [] dir = 2 -> y
      [] dir = 3 -> ny - 1 - y

\* The sample at distance j from (y, x) in direction dir.
SampleAt(image, y, x, dir, j) ==
    CASE dir = 0 -> image[y][x - j]
      [] dir = 1 -> image[y][x + j]
      [] dir = 2 -> image[y - j][x]
      [] dir = 3 -> image[y + j][x]

\* |anchor - sample| >= t for a finite anchor; a non-finite sample is
\* infinitely far.
Differs(anchor, sample, t) == sample = Inf \/ Abs(anchor - sample) >= t

AllEqualFinite(image) ==
    \A y \in DOMAIN image : \A x \in DOMAIN image[y] :
        image[y][x] = image[0][0] /\ image[y][x] # Inf

PixelsOf(image) == Pixels(NRows(image), NCols(image))

DistOf(image, p, dir) == Dist(NRows(image), NCols(image), p[1], p[2], dir)

\* C4 as stated: on a raster of equal finite values every pixel at distance
\* >= L from the four borders has four arms of length L, and every other
\* pixel has arms no longer than its distance to the border.
C4_Original ==
    (CrossDone /\ AllEqualFinite(left_masked)) =>
        \A p \in PixelsOf(left_masked) :
            IF \A dir \in 0..3 : DistOf(left_masked, p, dir) >= cbca_distance
            THEN \A dir \in 0..3 : cross_left[p[1]][p[2]][dir] = cbca_distance
            ELSE \A dir \in 0..3 :
                     cross_left[p[1]][p[2]][dir] <= DistOf(left_masked, p, dir)

\* The longest arm cross_support produces: the walk probes L - 1 samples,
\* and the minimum-length rule gives 1.
LongestArm(len_arms) == Max(len_arms - 1, 1)

\* C4 amended: on a raster of equal finite values every pixel at distance
\* >= max(L - 1, 1) from the four borders has four arms of length
\* max(L - 1, 1), and every other pixel has arms no longer than its distance
\* to the border.
C4_UniformArms ==
    (CrossDone /\ AllEqualFinite(left_masked)) =>
        \A p \in PixelsOf(left_masked) :
            IF \A dir \in 0..3 : DistOf(left_masked, p, dir) >= LongestArm(cbca_distance)
            THEN \A dir \in 0..3 : cross_left[p[1]][p[2]][dir] = LongestArm(cbca_distance)
            ELSE \A dir \in 0..3 :
                     cross_left[p[1]][p[2]][dir] <= DistOf(left_masked, p, dir)

\* A uniform raster with L = 2 and T = 1 has a pixel at distance >= 2 from
\* every border, whose four arms are 1.
C4_Witness ==
    /\ CrossDone /\ AllEqualFinite(left_masked)
    /\ cbca_distance = 2 /\ cbca_intensity = 1
    /\ \E p \in PixelsOf(left_masked) :
         /\ \A dir \in 0..3 : DistOf(left_masked, p, dir) >= 2
         /\ \A dir \in 0..3 : cross_left[p[1]][p[2]][dir] = 1

\* C5 as stated: for a finite pixel and every L > 0, a finite immediate
\* neighbour differing by >= T gives an arm of exactly 1, and a missing or
\* non-finite immediate neighbour gives an arm of 0.
C5_MinimumRule ==
    CrossDone =>
        \A p \in PixelsOf(left_masked) : \A dir \in 0..3 :
            LET anchor == left_masked[p[1]][p[2]]
                near == SampleAt(left_masked, p[1], p[2], dir, 1)
            IN  anchor # Inf =>
                  IF DistOf(left_masked, p, dir) = 0 THEN cross_left[p[1]][p[2]][dir] = 0
                  ELSE /\ near = Inf => cross_left[p[1]][p[2]][dir] = 0
                       /\ (near # Inf /\ Abs(anchor - near) >= cbca_intensity)
                             => cross_left[p[1]][p[2]][dir] = 1

\* C6: a pixel whose raster value is non-finite has the cross support
\* [0, 0, 0, 0], whatever L, T and its neighbours are.
C6_InvalidPixelZero ==
    CrossDone =>
        \A p \in PixelsOf(left_masked) :
            left_masked[p[1]][p[2]] = Inf =>
                \A dir \in 0..3 : cross_left[p[1]][p[2]][dir] = 0

\* A non-finite pixel with four finite neighbours has the support [0, 0, 0, 0].
C6_Witness ==
    /\ CrossDone
    /\ \E p \in PixelsOf(left_masked) :
         /\ left_masked[p[1]][p[2]] = Inf
         /\ \A dir \in 0..3 :
              /\ DistOf(left_masked, p, dir) >= 1
              /\ SampleAt(left_masked, p[1], p[2], dir, 1) # Inf
              /\ cross_left[p[1]][p[2]][dir] = 0

\* C7: every channel of every pixel lies in [0, L] and is at most the
\* distance from the pixel to the border in that direction.
C7_ArmsBounded ==
    CrossDone =>
        \A p \in PixelsOf(left_masked) : \A dir \in 0..3 :
            /\ cross_left[p[1]][p[2]][dir] >= 0
            /\ cross_left[p[1]][p[2]][dir] <= cbca_distance
            /\ cross_left[p[1]][p[2]][dir] <= DistOf(left_masked, p, dir)

\* A finite border pixel of a non-uniform raster: its arm toward the border
\* is 0 and another of its arms reaches the border in its direction (the
\* border, not L - 1, caps it).
C7_Witness ==
    /\ CrossDone /\ ~AllEqualFinite(left_masked)
    /\ \E p \in PixelsOf(left_masked) : \E dir, far \in 0..3 :
         /\ left_masked[p[1]][p[2]] # Inf
         /\ DistOf(left_masked, p, dir) = 0
         /\ cross_left[p[1]][p[2]][dir] = 0
         /\ DistOf(left_masked, p, far) >= 1
         /\ DistOf(left_masked, p, far) < cbca_distance - 1
         /\ cross_left[p[1]][p[2]][far] = DistOf(left_masked, p, far)

\* The for-loop of one arm of pixel p, as the code runs it.
WalkOf(p, dir) ==
    ArmWalk(left_masked[p[1]][p[2]],
            Samples(left_masked, NRows(left_masked), NCols(left_masked),
                    p[1], p[2], cbca_distance, dir),
            cbca_intensity, 1)

\* C8: for a finite anchor, when the arm length k is the walk's own count
\* (not forced by the minimum-length rule), every sample at distance 1..k
\* differs from the anchor by < T, and the sample at distance k + 1, if it
\* was probed, differs by >= T (a difference equal to T stops the walk).
C8_WalkStops ==
    CrossDone =>
        \A p \in PixelsOf(left_masked) : \A dir \in 0..3 :
            LET anchor == left_masked[p[1]][p[2]]
                k == cross_left[p[1]][p[2]][dir]
                w == WalkOf(p, dir)
            IN  (anchor # Inf /\ k = w.len) =>
                  /\ \A j \in 1..k :
                       ~Differs(anchor, SampleAt(left_masked, p[1], p[2], dir, j),
                                cbca_intensity)
                  /\ w.last > k =>
                       Differs(anchor, SampleAt(left_masked, p[1], p[2], dir, k + 1),
                               cbca_intensity)

\* A walk that accepts one sample and is stopped by the next, which is
\* finite and differs from the anchor by exactly T.
C8_Witness ==
    /\ CrossDone
    /\ \E p \in PixelsOf(left_masked) : \E dir \in 0..3 :
         LET anchor == left_masked[p[1]][p[2]]
             w == WalkOf(p, dir)
         IN  /\ anchor # Inf
             /\ w.len = 1 /\ w.last = 2
             /\ cross_left[p[1]][p[2]][dir] = 1
             /\ SampleAt(left_masked, p[1], p[2], dir, 2) # Inf
             /\ Abs(anchor - SampleAt(left_masked, p[1], p[2], dir, 2)) = cbca_intensity

\* C27 as stated: for a finite pixel, every L > 0 and every T > 0, the
\* samples at distance 1..k of an arm of length k are all finite.
C27_ArmsCoverFinite ==
    CrossDone =>
        \A p \in PixelsOf(left_masked) : \A dir \in 0..3 :
            left_masked[p[1]][p[2]] # Inf =>
                \A j \in 1..cross_left[p[1]][p[2]][dir] :
                    SampleAt(left_masked, p[1], p[2], dir, j) # Inf

(***************************************************************************)
(* float32 costs: a non-negative integer or NaN.  A cell of the cost       *)
(* volume or of agg is the quotient <<numerator, denominator>>.            *)
(***************************************************************************)
NaN == 0 - 2

isnan(v) == v = NaN

\* a + b, a * b on float32 with NaN propagation.
FAdd(a, b) == IF isnan(a) \/ isnan(b) THEN NaN ELSE a + b
FMul(a, b) == IF isnan(a) \/ isnan(b) THEN NaN ELSE a * b

\* Python index into an axis of length n: a negative index counts from the end.
Wrap(i, n) == IF i < 0 THEN i + n ELSE i

RECURSIVE SumOver(_, _, _)
\* np.sum(f[lo:hi + 1])
SumOver(f, lo, hi) == IF lo > hi THEN 0 ELSE f[lo] + SumOver(f, lo + 1, hi)

(***************************************************************************)
(* cbca_step_1: horizontal integral image of one layer (ny x nx costs).    *)
(* The result has nx + 1 columns; column nx is never written and is the    *)
(* one the index x - 1 = -1 designates.                                    *)
(***************************************************************************)
\* Variant of Step1Cell: a NaN cost resets the running sum.
RECURSIVE Step1CellReset(_, _, _)
Step1CellReset(row, nx, x) ==
    IF x = nx THEN 0
    ELSE IF ~isnan(row[x]) THEN Step1CellReset(row, nx, Wrap(x - 1, nx + 1)) + row[x]
    ELSE 0

RECURSIVE Step1Cell(_, _, _)
Step1Cell(row, nx, x) ==
    IF x = nx THEN 0
    ELSE IF ~isnan(row[x]) THEN Step1Cell(row, nx, Wrap(x - 1, nx + 1)) + row[x]
    ELSE Step1Cell(row, nx, Wrap(x - 1, nx + 1))

cbca_step_1(cost, ny, nx) ==
    [y \in 0..(ny - 1) |-> [x \in 0..nx |-> Step1Cell(cost[y], nx, x)]]

(***************************************************************************)
(* Valid columns of a layer: range_col[valid_index] and                    *)
(* range_col_right[valid_index].astype(int).  The disparity of the layer   *)
(* is disp / subpix (disp is an integer number of subpixel steps) and w is *)
(* the column count of the selected right tensor.                          *)
(***************************************************************************)
\* Variant of ValidCols: the matched column is tested against the width of
\* the cost volume instead of the width of the selected right tensor.
ValidColsVolumeWidth(nx, disp, subpix, w) ==
    {c \in 0..(nx - 1) : c * subpix + disp >= 0 /\ c * subpix + disp < nx * subpix}

\* Variant of ValidCols: a column matched with column 0 of the right tensor
\* is left out.
ValidColsPositive(nx, disp, subpix, w) ==
    {c \in 0..(nx - 1) : c * subpix + disp > 0 /\ c * subpix + disp < w * subpix}

ValidCols(nx, disp, subpix, w) ==
    {c \in 0..(nx - 1) : c * subpix + disp >= 0 /\ c * subpix + disp < w * subpix}

\* astype(int) of c + disp / subpix: truncation toward zero.
RightCol(c, disp, subpix) ==
    LET n == c * subpix + disp
    IN  IF n >= 0 THEN n \div subpix ELSE 0 - ((0 - n) \div subpix)

\* Variant of IRight: the remainder takes the sign of the disparity.
IRightTruncated(disp, subpix) ==
    IF disp >= 0 THEN disp % subpix ELSE 0 - ((0 - disp) % subpix)

\* int((disparity % 1) * subpixel)
IRight(disp, subpix) == disp % subpix

(***************************************************************************)
(* cbca_step_2                                                             *)
(***************************************************************************)
\* Variant of HArms: the arms of the left image alone.
HArmsLeftImage(cl, cr, y, c, rc) == [left |-> cl[y][c][0], right |-> cl[y][c][1]]

HArms(cl, cr, y, c, rc) ==
    [left  |-> Min(cl[y][c][0], cr[y][rc][0]),
     right |-> Min(cl[y][c][1], cr[y][rc][1])]

cbca_step_2(s1, cl, cr, ny, nx, valid, disp, subpix) ==
    [step2 |-> [y \in 0..(ny - 1) |-> [c \in 0..(nx - 1) |->
                  IF c \in valid
                  THEN LET a == HArms(cl, cr, y, c, RightCol(c, disp, subpix))
                       IN  s1[y][Wrap(c + a.right, nx + 1)]
                             - s1[y][Wrap(c - a.left - 1, nx + 1)]
                  ELSE 0]],
     sum2  |-> [y \in 0..(ny - 1) |-> [c \in 0..(nx - 1) |->
                  IF c \in valid
                  THEN LET a == HArms(cl, cr, y, c, RightCol(c, disp, subpix))
                       IN  a.right + a.left
                  ELSE 0]]]

(***************************************************************************)
(* cbca_step_3: vertical integral image, ny + 1 rows, row ny stays 0.      *)
(***************************************************************************)
RECURSIVE Step3Cell(_, _, _, _)
Step3Cell(s2, ny, y, x) ==
    IF y = ny THEN 0
    ELSE IF y = 0 THEN s2[0][x]
    ELSE Step3Cell(s2, ny, y - 1, x) + s2[y][x]

cbca_step_3(s2, ny, nx) ==
    [y \in 0..ny |-> [x \in 0..(nx - 1) |-> Step3Cell(s2, ny, y, x)]]

(***************************************************************************)
(* cbca_step_4                                                             *)
(***************************************************************************)
\* Variant of VArms: the arms of the left image alone.
VArmsLeftImage(cl, cr, y, c, rc) == [top |-> cl[y][c][2], bot |-> cl[y][c][3]]

VArms(cl, cr, y, c, rc) ==
    [top |-> Min(cl[y][c][2], cr[y][rc][2]),
     bot |-> Min(cl[y][c][3], cr[y][rc][3])]

Column(f, c) == [y \in DOMAIN f |-> f[y][c]]

\* Variant of Sum4Cell: the horizontal counts of the rows above and below are
\* not added.
Sum4CellAnchorRow(s2sum, y, c, top, bot) == s2sum[y][c] + (top + bot)

\* Variant of Sum4Cell: the arms' own cells (top + bot) are not added.
Sum4CellNoArms(s2sum, y, c, top, bot) ==
    s2sum[y][c]
      + (IF top # 0 THEN SumOver(Column(s2sum, c), y - top, y - 1) ELSE 0)
      + (IF bot # 0 THEN SumOver(Column(s2sum, c), y + 1, y + bot) ELSE 0)

Sum4Cell(s2sum, y, c, top, bot) ==
    s2sum[y][c] + (top + bot)
      + (IF top # 0 THEN SumOver(Column(s2sum, c), y - top, y - 1) ELSE 0)
      + (IF bot # 0 THEN SumOver(Column(s2sum, c), y + 1, y + bot) ELSE 0)

cbca_step_4(s3, s2sum, cl, cr, ny, nx, valid, disp, subpix) ==
    [step4 |-> [y \in 0..(ny - 1) |-> [c \in 0..(nx - 1) |->
                  IF c \in valid
                  THEN LET a == VArms(cl, cr, y, c, RightCol(c, disp, subpix))
                       IN  s3[Wrap(y + a.bot, ny + 1)][c]
                             - s3[Wrap(y - a.top - 1, ny + 1)][c]
                  ELSE 0]],
     sum4  |-> [y \in 0..(ny - 1) |-> [c \in 0..(nx - 1) |->
                  IF c \in valid
                  THEN LET a == VArms(cl, cr, y, c, RightCol(c, disp, subpix))
                       IN  Sum4Cell(s2sum, y, c, a.top, a.bot)
                  ELSE s2sum[y][c]]]]

(***************************************************************************)
(* cost_volume_aggregation                                                 *)
(***************************************************************************)
RECURSIVE Gcd(_, _)
Gcd(a, b) == IF b = 0 THEN a ELSE Gcd(b, a % b)

RECURSIVE LcmOf(_)
\* Least common multiple of a set of positive integers.
LcmOf(S) ==
    IF S = {} THEN 1
    ELSE LET n == CHOOSE n \in S : TRUE
             m == LcmOf(S \ {n})
         IN  (m \div Gcd(m, n)) * n

\* The costs of a volume are handled as integers counted in 1 / Unit, Unit
\* being the common denominator of its cells.
Unit(data) ==
    LcmOf({data[y][x][k][2] : y \in DOMAIN data, x \in DOMAIN data[0], k \in DOMAIN data[0][0]})

\* The float32 value of a cell, counted in 1 / u.
Scaled(cell, u) == IF isnan(cell[1]) THEN NaN ELSE cell[1] * (u \div cell[2])

\* Variant of SeedAgg: the multiplication by zero is missing.
SeedAggKeep(data, ny, nx, nd) ==
    LET u == Unit(data)
    IN  [k \in 0..(nd - 1) |-> [x \in 0..(nx - 1) |-> [y \in 0..(ny - 1) |->
            <<FAdd(0, Scaled(data[y][x][k], u)), u>>]]]

\* Variant of SeedAgg: agg stays the array of zeros it was allocated as.
SeedAggZeros(data, ny, nx, nd) ==
    [k \in 0..(nd - 1) |-> [x \in 0..(nx - 1) |-> [y \in 0..(ny - 1) |-> <<0, 1>>]]]

\* agg = zeros; agg += swapaxes(cost_volume, 0, 2); agg *= 0
SeedAgg(data, ny, nx, nd) ==
    LET u == Unit(data)
    IN  [k \in 0..(nd - 1) |-> [x \in 0..(nx - 1) |-> [y \in 0..(ny - 1) |->
            <<FMul(FAdd(0, Scaled(data[y][x][k], u)), 0), u>>]]]

\* Variant of Layer: every layer's passes are handed the costs of layer 0.
LayerFirst(data, ny, nx, k) ==
    LET u == Unit(data)
    IN  [y \in 0..(ny - 1) |-> [x \in 0..(nx - 1) |-> Scaled(data[y][x][0], u)]]

\* One layer of the cost volume, as handed to cbca_step_1.
Layer(data, ny, nx, k) ==
    LET u == Unit(data)
    IN  [y \in 0..(ny - 1) |-> [x \in 0..(nx - 1) |-> Scaled(data[y][x][k], u)]]

\* agg[d] += swapaxes(step4, 0, 1); agg[d] /= swapaxes(sum4, 0, 1)
NormalizeLayer(aggd, s4, s4sum, ny, nx) ==
    [x \in 0..(nx - 1) |-> [y \in 0..(ny - 1) |->
        <<FAdd(aggd[x][y][1], s4[y][x]), aggd[x][y][2] * s4sum[y][x]>>]]

\* Variant of NewCmax: the maximal cost is left as it is.
NewCmaxKeep(cmax, distance) == cmax

\* Variant of NewCmax: the window of arms of length cbca_distance.
NewCmaxWide(cmax, distance) == cmax * (((distance * 2) + 1) * ((distance * 2) + 1))

\* cmax * ((cbca_distance * 2) - 1) ** 2
NewCmax(cmax, distance) == cmax * (((distance * 2) - 1) * ((distance * 2) - 1))

\* Column count of the right tensor of shift i: the shifted rasters have
\* one column less than the right raster.
RightWidth(nx, i) == IF i = 0 THEN nx ELSE nx - 1

(***************************************************************************)
(* Inputs of a call of cost_volume_aggregation.                            *)
(***************************************************************************)
Subpixels == {1, 2}

\* Values of cbca_distance of the calls: arms of at most 1, and the default.
Distances == {1, 2, CBCA_DISTANCE}

\* Raster values of the calls: 0, a value differing from 0 by exactly the
\* intensity threshold, and an invalid sample.
CallIntensity == MaxIntensity
CallValues == {CallIntensity, Inf}

UniformRaster(ny, nx) == [y \in 0..(ny - 1) |-> [x \in 0..(nx - 1) |-> 0]]

\* Side 0 is the left raster, side i + 1 the right raster of shift i.
SideWidth(side) == IF side = 0 THEN Cols ELSE RightWidth(Cols, side - 1)

\* The values the odd pixel of a raster may take: any for the left raster,
\* invalid for a right raster.
SideValues(side) == IF side = 0 THEN CallValues ELSE {Inf}

\* The prepared rasters of a call: uniform, except for at most one pixel of
\* one of them.
RasterTuples(subpix) ==
    LET uniform == [side \in 0..subpix |-> UniformRaster(Rows, SideWidth(side))]
    IN  UNION {{[uniform EXCEPT ![side] = r] :
                   r \in Rasters(Rows, SideWidth(side), SideValues(side), 1)}
               : side \in 0..subpix}

\* Costs: every cell its own value, at most one cell of the first layer NaN.
BaseCost(y, x, k) == 1 + y * Cols + x + k * Rows * Cols

BaseVolume == [y \in 0..(Rows - 1) |-> [x \in 0..(Cols - 1) |-> [k \in 0..(NbDisp - 1) |->
                  <<BaseCost(y, x, k), 1>>]]]

CostVolumes ==
    {BaseVolume} \cup
    {[BaseVolume EXCEPT ![y][x][0] = <<NaN, 1>>] :
        y \in 0..(Rows - 1), x \in 0..(Cols - 1)}

\* Disparities of the layers, in subpixel steps: consecutive, from a first
\* one that puts no, all or some columns of the first layer in the valid set.
DispStarts(subpix) == {0 - Cols * subpix, 0, 1}

Init ==
    /\ pc = "computes_cross_supports"
    /\ cbca_distance \in Distances
    /\ cbca_intensity = CallIntensity
    /\ \E subpix \in Subpixels :
         /\ \E t \in RasterTuples(subpix) :
              /\ left_masked = t[0]
              /\ right_masked = [i \in 0..(subpix - 1) |-> t[i + 1]]
         /\ \E data \in CostVolumes, first \in DispStarts(subpix) :
              /\ cv = [data |-> data,
                       disp |-> [k \in 0..(NbDisp - 1) |-> first + k],
                       subpixel |-> subpix,
                       cmax |-> Rows * Cols * NbDisp,
                       aggregation |-> "none"]
              /\ cost_in = data
    /\ InstanceOf
    /\ NoDatasets
    /\ cross_left = << >>
    /\ cross_right = << >>
    /\ agg = << >>
    /\ patch = << >>
    /\ layers = << >>
    /\ d = 0
    /\ step1 = << >> /\ step2 = << >> /\ sum2 = << >>
    /\ step3 = << >> /\ step4 = << >> /\ sum4 = << >>

\* ny_, nx_, nb_disp = cv['cost_volume'].shape
ny_ == Cardinality(DOMAIN cv.data)
nx_ == Cardinality(DOMAIN cv.data[0])
nb_disp == Cardinality(DOMAIN cv.data[0][0])

\* Lines 114 and 167-257: the cross supports of the prepared rasters.
ComputesCrossSupports ==
    /\ pc = "computes_cross_supports"
    /\ cross_left' = cross_support(left_masked, NRows(left_masked), NCols(left_masked),
                                   cbca_distance, cbca_intensity)
    /\ cross_right' = [i \in DOMAIN right_masked |->
           cross_support(right_masked[i], NRows(right_masked[i]), NCols(right_masked[i]),
                         cbca_distance, cbca_intensity)]
    /\ pc' = "seed"
    /\ UNCHANGED <<patch, layers, inputs, applied, cv, cost_in, agg, d, layer>>

\* The place of layer v in the sequence s the for statement iterates over.
Position(s, v) == CHOOSE i \in 1..Len(s) : s[i] = v

\* Lines 116-131.
SeedAggregated ==
    /\ pc = "seed"
    /\ agg' = SeedAgg(cv.data, ny_, nx_, nb_disp)
    /\ layers' = range(0, nb_disp, 1)
    /\ d' = 0
    /\ pc' = IF nb_disp > 0 THEN "step1" ELSE "install"
    /\ UNCHANGED <<patch, inputs, applied, cross_left, cross_right, cv, cost_in, layer>>

\* The selected right tensor and the valid columns of layer d (lines 134-140).
i_right == IRight(cv.disp[d], cv.subpixel)
valid_index == ValidCols(nx_, cv.disp[d], cv.subpixel, NCols(cross_right[i_right]))

Step1 ==
    /\ pc = "step1"
    /\ step1' = cbca_step_1(Layer(cv.data, ny_, nx_, d), ny_, nx_)
    /\ pc' = "step2"
    /\ UNCHANGED <<patch, layers, inputs, applied, cross_left, cross_right, cv, cost_in, agg, d,
                   step2, sum2, step3, step4, sum4>>

Step2 ==
    /\ pc = "step2"
    /\ LET r == cbca_step_2(step1, cross_left, cross_right[i_right], ny_, nx_,
                            valid_index, cv.disp[d], cv.subpixel)
       IN  step2' = r.step2 /\ sum2' = r.sum2
    /\ pc' = "step3"
    /\ UNCHANGED <<patch, layers, inputs, applied, cross_left, cross_right, cv, cost_in, agg, d,
                   step1, step3, step4, sum4>>

Step3 ==
    /\ pc = "step3"
    /\ step3' = cbca_step_3(step2, NRows(step2), NCols(step2))
    /\ pc' = "step4"
    /\ UNCHANGED <<patch, layers, inputs, applied, cross_left, cross_right, cv, cost_in, agg, d,
                   step1, step2, sum2, step4, sum4>>

Step4 ==
    /\ pc = "step4"
    /\ LET r == cbca_step_4(step3, sum2, cross_left, cross_right[i_right], ny_, nx_,
                            valid_index, cv.disp[d], cv.subpixel)
       IN  step4' = r.step4 /\ sum4' = r.sum4
    /\ pc' = "add_anchor"
    /\ UNCHANGED <<patch, layers, inputs, applied, cross_left, cross_right, cv, cost_in, agg, d,
                   step1, step2, sum2, step3>>

\* Variant of AddAnchor: the anchor is not added to the count.
AddAnchorForgotten ==
    /\ pc = "add_anchor"
    /\ pc' = "normalize"
    /\ UNCHANGED <<patch, layers, inputs, applied, cross_left, cross_right, cv, cost_in, agg, d,
                   layer>>

\* sum4 += 1
AddAnchor ==
    /\ pc = "add_anchor"
    /\ sum4' = [y \in DOMAIN sum4 |-> [x \in DOMAIN sum4[y] |-> sum4[y][x] + 1]]
    /\ pc' = "normalize"
    /\ UNCHANGED <<patch, layers, inputs, applied, cross_left, cross_right, cv, cost_in, agg, d,
                   step1, step2, sum2, step3, step4>>

\* Variant of Normalize: the normalized layer is written into the cost
\* volume right away.
NormalizeInPlace ==
    /\ pc = "normalize"
    /\ agg' = [agg EXCEPT ![d] = NormalizeLayer(agg[d], step4, sum4, ny_, nx_)]
    /\ cv' = [cv EXCEPT
                !.data = [y \in 0..(ny_ - 1) |-> [x \in 0..(nx_ - 1) |->
                            [k \in 0..(nb_disp - 1) |->
                                IF k = d THEN agg'[d][x][y] ELSE cv.data[y][x][k]]]]]
    /\ LET i == Position(layers, d)
       IN  /\ d' = IF i < Len(layers) THEN layers[i + 1] ELSE Len(layers)
           /\ pc' = IF i < Len(layers) THEN "step1" ELSE "install"
    /\ UNCHANGED <<patch, layers, inputs, applied, cross_left, cross_right, cost_in, layer>>

\* Lines 156-158, then the next layer.
Normalize ==
    /\ pc = "normalize"
    /\ agg' = [agg EXCEPT ![d] = NormalizeLayer(agg[d], step4, sum4, ny_, nx_)]
    /\ LET i == Position(layers, d)
       IN  /\ d' = IF i < Len(layers) THEN layers[i + 1] ELSE Len(layers)
           /\ pc' = IF i < Len(layers) THEN "step1" ELSE "install"
    /\ UNCHANGED <<patch, layers, inputs, applied, cross_left, cross_right, cv, cost_in, layer>>

\* Lines 160-165.
Install ==
    /\ pc = "install"
    /\ cv' = [cv EXCEPT
                !.data = [y \in 0..(ny_ - 1) |-> [x \in 0..(nx_ - 1) |->
                            [k \in 0..(nb_disp - 1) |-> agg[k][x][y]]]],
                !.aggregation = "cbca",
                !.cmax = NewCmax(cv.cmax, cbca_distance)]
    /\ applied' = Append(applied, cv')
    /\ pc' = "done"
    /\ UNCHANGED <<patch, layers, inputs, cross_left, cross_right, cost_in, agg, d, layer>>

Next ==
    \/ ComputesCrossSupports
    \/ SeedAggregated
    \/ Step1
    \/ Step2
    \/ Step3
    \/ Step4
    \/ AddAnchor
    \/ Normalize
    \/ Install

Spec == Init /\ [][Next]_vars

(***************************************************************************)
(* Construction of an instance from a configuration, followed by a call of *)
(* cost_volume_aggregation on the instance constructed.                    *)
(***************************************************************************)
MethodValues == {PyStr("cbca"), PyStr("census"), PyInt(1)}
IntensityValues == {PyFloat(1), PyFloat(0), PyFloat(0 - 1), PyInt(1), PyStr("1")}
DistanceValues == {PyInt(2), PyInt(0), PyInt(0 - 1), PyFloat(2), PyStr("2")}

ValuesOf(k) ==
    CASE k = "aggregation_method" -> MethodValues
      [] k = "cbca_intensity" -> IntensityValues
      [] k = "cbca_distance" -> DistanceValues

\* The keyword arguments of the constructor: any subset of the keys.
Configurations ==
    UNION {{c \in [K -> MethodValues \cup IntensityValues \cup DistanceValues] :
               \A k \in K : c[k] \in ValuesOf(k)}
           : K \in SUBSET SchemaKeys}

InitConf ==
    /\ pc = "init"
    /\ cfg \in Configurations
    /\ self_cfg = << >>
    /\ attrs = {}
    /\ cbca_distance = 0
    /\ cbca_intensity = 0
    /\ left_masked = << >>
    /\ right_masked = << >>
    /\ NoDatasets
    /\ cross_left = << >>
    /\ cross_right = << >>
    /\ cv = << >>
    /\ cost_in = << >>
    /\ agg = << >>
    /\ patch = << >>
    /\ layers = << >>
    /\ d = 0
    /\ step1 = << >> /\ step2 = << >> /\ sum2 = << >>
    /\ step3 = << >> /\ step4 = << >> /\ sum4 = << >>

\* __init__ (lines 47-54): check_conf raises, or the three attributes are set.
Construct ==
    /\ pc = "init"
    /\ LET c == WithDefaults(cfg)
       IN  IF Validates(c)
           THEN /\ self_cfg' = c
                /\ cbca_intensity' = c["cbca_intensity"].num
                /\ cbca_distance' = c["cbca_distance"].num
                /\ attrs' = AllAttrs
                /\ pc' = "constructed"
           ELSE /\ pc' = "error"
                /\ UNCHANGED <<self_cfg, cbca_intensity, cbca_distance, attrs>>
    /\ UNCHANGED <<patch, layers, cfg, images, applied, cross_left, cross_right, cv, cost_in, agg, d, layer>>

\* cost_volume_aggregation is called on the constructed instance, with
\* uniform rasters and the base volume.
CallAggregation ==
    /\ pc = "constructed"
    /\ \E subpix \in Subpixels : \E first \in DispStarts(subpix) :
         /\ left_masked' = UniformRaster(Rows, Cols)
         /\ right_masked' = [i \in 0..(subpix - 1) |-> UniformRaster(Rows, RightWidth(Cols, i))]
         /\ cv' = [data |-> BaseVolume,
                   disp |-> [k \in 0..(NbDisp - 1) |-> first + k],
                   subpixel |-> subpix,
                   cmax |-> Rows * Cols * NbDisp,
                   aggregation |-> "none"]
         /\ cost_in' = BaseVolume
    /\ pc' = "computes_cross_supports"
    /\ UNCHANGED <<patch, layers, instance, img_left, img_right, img_right_shift, applied,
                   cross_left, cross_right, agg, d, layer>>

NextConf ==
    \/ Construct
    \/ CallAggregation
    \/ Next

SpecConf == InitConf /\ [][NextConf]_vars

(***************************************************************************)
(* cost_volume_aggregation applied to a volume, then applied again to the  *)
(* volume the first call left, with the same rasters and configuration.    *)
(***************************************************************************)
UniformVolume(v) ==
    [y \in 0..(Rows - 1) |-> [x \in 0..(Cols - 1) |-> [k \in 0..(NbDisp - 1) |-> <<v, 1>>]]]

\* Volumes of the repeated calls: every cost 0, every cost 1, every cost NaN.
TwiceVolumes == {UniformVolume(v) : v \in {0, 1, NaN}}

InitTwice ==
    /\ pc = "computes_cross_supports"
    /\ cbca_distance \in Distances
    /\ cbca_intensity = CallIntensity
    /\ \E subpix \in Subpixels :
         /\ \E t \in RasterTuples(subpix) :
              /\ left_masked = t[0]
              /\ right_masked = [i \in 0..(subpix - 1) |-> t[i + 1]]
         /\ \E data \in TwiceVolumes, first \in DispStarts(subpix) :
              /\ cv = [data |-> data,
                       disp |-> [k \in 0..(NbDisp - 1) |-> first + k],
                       subpixel |-> subpix,
                       cmax |-> Rows * Cols * NbDisp,
                       aggregation |-> "none"]
              /\ cost_in = data
    /\ InstanceOf
    /\ NoDatasets
    /\ cross_left = << >>
    /\ cross_right = << >>
    /\ agg = << >>
    /\ patch = << >>
    /\ layers = << >>
    /\ d = 0
    /\ step1 = << >> /\ step2 = << >> /\ sum2 = << >>
    /\ step3 = << >> /\ step4 = << >> /\ sum4 = << >>

\* The second call: the same instance and rasters, the dataset as the first
\* call left it.
CallAgain ==
    /\ pc = "done"
    /\ Len(applied) = 1
    /\ cost_in' = cv.data
    /\ pc' = "computes_cross_supports"
    /\ UNCHANGED <<patch, layers, inputs, applied, cross_left, cross_right, cv, agg, d, layer>>

NextTwice ==
    \/ Next
    \/ CallAgain

SpecTwice == InitTwice /\ [][NextTwice]_vars

(***************************************************************************)
(* Image datasets.  A dataset holds its data variables ("im", and "msk"    *)
(* when it has a mask), the column coordinates (counted in quarters of a   *)
(* column) and its attributes.                                             *)
(***************************************************************************)
NoAttrs == [n \in {} |-> 0]

Dataset(im, names, msk, first_col, at) ==
    [data_vars |-> names,
     im |-> im,
     msk |-> msk,
     col |-> [x \in DOMAIN im[0] |-> first_col + 4 * x],
     attrs |-> at]

\* zoom(im, (1, (nx_ * 4 - 3) / nx_), order=1): 4 * nx_ - 3 columns, column j
\* holding the linear interpolation of the row at j / 4.
Zoom(im, ny, nx) ==
    [y \in 0..(ny - 1) |-> [j \in 0..(4 * nx - 4) |->
        IF j % 4 = 0 THEN im[y][j \div 4]
        ELSE ((4 - (j % 4)) * im[y][j \div 4] + (j % 4) * im[y][(j \div 4) + 1]) \div 4]]

\* Variant of ShiftedBy: the shifted dataset is given the mask of the two
\* columns it is interpolated from.
ShiftedByWithMask(img, q) ==
    LET ny == NRows(img.im)
        nx == NCols(img.im)
        z == Zoom(img.im, ny, nx)
    IN  [data_vars |-> img.data_vars,
         im |-> [y \in 0..(ny - 1) |-> [x \in 0..(nx - 2) |-> z[y][q + 4 * x]]],
         msk |-> IF "msk" \in img.data_vars
                 THEN [y \in 0..(ny - 1) |-> [x \in 0..(nx - 2) |->
                          IF img.msk[y][x] = img.msk[y][x + 1] THEN img.msk[y][x] ELSE 1]]
                 ELSE << >>,
         col |-> [x \in 0..(nx - 2) |-> img.col[0] + q + 4 * x],
         attrs |-> img.attrs]

\* The dataset shifted by q quarters of a column: zoom(...)[:, q::4] with
\* the coordinates arange(col[0] + q / 4, col[-1], 1), and nothing else.
ShiftedBy(img, q) ==
    LET ny == NRows(img.im)
        nx == NCols(img.im)
        z == Zoom(img.im, ny, nx)
    IN  [data_vars |-> {"im"},
         im |-> [y \in 0..(ny - 1) |-> [x \in 0..(nx - 2) |-> z[y][q + 4 * x]]],
         msk |-> << >>,
         col |-> [x \in 0..(nx - 2) |-> img.col[0] + q + 4 * x],
         attrs |-> NoAttrs]

\* A Python list: the sequence s indexed from 0.
PyList(s) == [i \in 0..(Len(s) - 1) |-> s[i + 1]]

shift_right_img(img, subpix) ==
    PyList(<<img>>
           \o (IF subpix = 2 THEN <<ShiftedBy(img, 2)>> ELSE << >>)
           \o (IF subpix = 4 THEN <<ShiftedBy(img, 1), ShiftedBy(img, 2), ShiftedBy(img, 3)>>
               ELSE << >>))

(***************************************************************************)
(* computes_cross_supports: the preparation of the rasters.                *)
(***************************************************************************)
\* raster[np.where(msk != valid_pixels)] = np.nan
MaskedNaN(im, msk, valid) ==
    [y \in DOMAIN im |-> [x \in DOMAIN im[y] |-> IF msk[y][x] # valid THEN NaN ELSE im[y][x]]]

\* Variant of ShiftMaskedNaN: the mask of the left one of the two columns
\* alone decides.
ShiftMaskedNaNOneColumn(im, msk, valid) ==
    [y \in DOMAIN im |-> [x \in DOMAIN im[y] |-> IF msk[y][x] # valid THEN NaN ELSE im[y][x]]]

\* right_masked += shift_mask, shift_mask being NaN where one of the two
\* adjacent columns of the mask is not valid, and 0 elsewhere.
ShiftMaskedNaN(im, msk, valid) ==
    [y \in DOMAIN im |-> [x \in DOMAIN im[y] |->
        IF msk[y][x] # valid \/ msk[y][x + 1] # valid THEN NaN ELSE im[y][x]]]

RECURSIVE InsertSorted(_, _)
InsertSorted(v, s) ==
    IF s = << >> THEN <<v>>
    ELSE IF v <= Head(s) THEN <<v>> \o s
    ELSE <<Head(s)>> \o InsertSorted(v, Tail(s))

RECURSIVE Sorted(_)
Sorted(s) == IF s = << >> THEN << >> ELSE InsertSorted(Head(s), Sorted(Tail(s)))

\* np.nanmedian of a sequence holding at least one number.
NanMedian(s) ==
    LET t == Sorted(SelectSeq(s, LAMBDA v : v # NaN))
        n == Len(t)
    IN  IF n % 2 = 1 THEN t[(n + 1) \div 2] ELSE (t[n \div 2] + t[(n \div 2) + 1]) \div 2

\* The 3 x 3 median filter on valid pixels: a NaN sample stays NaN, a sample
\* with a full window becomes the median of the numbers of its window, a
\* sample of the border is kept.
median_filter(r, ny, nx) ==
    [y \in 0..(ny - 1) |-> [x \in 0..(nx - 1) |->
        IF r[y][x] = NaN \/ y = 0 \/ y = ny - 1 \/ x = 0 \/ x = nx - 1 THEN r[y][x]
        ELSE NanMedian([i \in 1..9 |-> r[y - 1 + ((i - 1) \div 3)][x - 1 + ((i - 1) % 3)]])]]

\* np.nan_to_num(raster, copy=False, nan=np.inf)
NanToInf(r) == [y \in DOMAIN r |-> [x \in DOMAIN r[y] |-> IF r[y][x] = NaN THEN Inf ELSE r[y][x]]]

\* Variant of Trim: the raster is handed to cross_support whole.
TrimNothing(r, ny, nx, offset) == r

\* raster[offset: -offset, offset: -offset] when offset != 0.
Trim(r, ny, nx, offset) ==
    IF offset # 0
    THEN [y \in 0..(ny - 2 * offset - 1) |-> [x \in 0..(nx - 2 * offset - 1) |->
             r[y + offset][x + offset]]]
    ELSE r

\* Lines 201-203: the left raster, its samples that are not valid masked.
MaskedLeft(img) ==
    IF "msk" \in img.data_vars
    THEN MaskedNaN(img.im, img.msk, img.attrs["valid_pixels"])
    ELSE img.im

\* Lines 220-243: the right raster of one shift, its samples that are not
\* valid masked.
MaskedRight(img, shifted, shift) ==
    LET im == shifted[shift].im
    IN  IF "msk" \in img.data_vars
        THEN IF shift = 0
             THEN MaskedNaN(im, img.msk, img.attrs["valid_pixels"])
             ELSE ShiftMaskedNaN(im, img.msk, img.attrs["valid_pixels"])
        ELSE im

\* The median filter, nan_to_num and the slice by the border offset.
FilteredTrimmed(r, offset) ==
    LET ny == NRows(r)
        nx == NCols(r)
    IN  Trim(NanToInf(median_filter(r, ny, nx)), ny, nx, offset)

\* Lines 201-214: the left raster handed to cross_support.
PreparedLeft(img, offset) == FilteredTrimmed(MaskedLeft(img), offset)

\* Lines 220-255: the right raster of one shift handed to cross_support.
PreparedRight(img, shifted, shift, offset) ==
    FilteredTrimmed(MaskedRight(img, shifted, shift), offset)

(***************************************************************************)
(* A call of cost_volume_aggregation on image datasets: the rasters are    *)
(* prepared by computes_cross_supports from the images, their masks, the   *)
(* subpixel factor and the border offset of the cost volume.               *)
(***************************************************************************)
\* offset_row_col of the calls.
Offsets == {0, 1}

\* Attributes of an image: the mask code of a valid pixel.
ImageAttrs == [n \in {"valid_pixels"} |-> 0]

AtMostOnePixel(ny, nx) == {{}} \cup {{q} : q \in Pixels(ny, nx)}

\* An image of zeros without mask.
Plain(ny, nx) == Dataset(UniformRaster(ny, nx), {"im"}, << >>, 0, ImageAttrs)

\* An image of zeros whose mask marks the pixels of S as not valid.
WithMask(ny, nx, S) ==
    Dataset(UniformRaster(ny, nx), {"im", "msk"},
            [y \in 0..(ny - 1) |-> [x \in 0..(nx - 1) |-> IF <<y, x>> \in S THEN 1 ELSE 0]],
            0, ImageAttrs)

\* An image of zeros but for one pixel, without mask.
WithSpot(ny, nx, q) ==
    Dataset([y \in 0..(ny - 1) |-> [x \in 0..(nx - 1) |-> IF <<y, x>> = q THEN 8 ELSE 0]],
            {"im"}, << >>, 0, ImageAttrs)

\* The pairs (left image, right image) of the calls.
ImagePairs(ny, nx) ==
    {<<Plain(ny, nx), Plain(ny, nx)>>}
      \cup {<<WithMask(ny, nx, {q}), Plain(ny, nx)>> : q \in Pixels(ny, nx)}
      \cup {<<Plain(ny, nx), WithMask(ny, nx, S)>> : S \in AtMostOnePixel(ny, nx)}
      \cup {<<Plain(ny, nx), WithSpot(ny, nx, q)>> : q \in Pixels(ny, nx)}

\* subpixel of the calls.
CallSubpixels == {1, 2, 4}

\* First disparity of the calls, in subpixel steps: as DispStarts, and one
\* step below zero.
CallDispStarts(subpix) == DispStarts(subpix) \cup {0 - 1}

\* Cost volume of the calls: the base volume with one NaN cost.
CallVolumes == {[BaseVolume EXCEPT ![0][0][0] = <<NaN, 1>>]}

InitCall ==
    /\ pc = "call"
    /\ cbca_distance \in Distances
    /\ cbca_intensity = CallIntensity
    /\ InstanceOf
    /\ \E offset \in Offsets :
         /\ \E pair \in ImagePairs(Rows + 2 * offset, Cols + 2 * offset) :
              /\ img_left = pair[1]
              /\ img_right = pair[2]
         /\ \E subpix \in CallSubpixels : \E first \in CallDispStarts(subpix) :
              \E data \in CallVolumes :
                /\ cv = [data |-> data,
                         disp |-> [k \in 0..(NbDisp - 1) |-> first + k],
                         subpixel |-> subpix,
                         offset_row_col |-> offset,
                         cmax |-> Rows * Cols * NbDisp,
                         aggregation |-> "none"]
                /\ cost_in = data
    /\ img_right_shift = << >>
    /\ left_masked = << >>
    /\ right_masked = << >>
    /\ applied = << >>
    /\ cross_left = << >>
    /\ cross_right = << >>
    /\ agg = << >>
    /\ patch = << >>
    /\ layers = << >>
    /\ d = 0
    /\ step1 = << >> /\ step2 = << >> /\ sum2 = << >>
    /\ step3 = << >> /\ step4 = << >> /\ sum4 = << >>

\* Lines 191-203 and 217-243 of computes_cross_supports: the right image is
\* shifted, and the samples that are not valid are masked with NaN.
MaskRasters ==
    /\ pc = "call"
    /\ LET shifted == shift_right_img(img_right, cv.subpixel)
       IN  /\ img_right_shift' = shifted
           /\ left_masked' = MaskedLeft(img_left)
           /\ right_masked' = [i \in DOMAIN shifted |-> MaskedRight(img_right, shifted, i)]
    /\ pc' = "filter"
    /\ UNCHANGED <<patch, layers, instance, img_left, img_right, applied, cross_left, cross_right,
                   cv, cost_in, agg, d, layer>>

\* Lines 205-214 and 246-255: the masked rasters are filtered, their NaN
\* become inf and the border offset is removed; the cross supports of the
\* rasters follow (ComputesCrossSupports).
PrepareRasters ==
    /\ pc = "filter"
    /\ left_masked' = FilteredTrimmed(left_masked, cv.offset_row_col)
    /\ right_masked' = [i \in DOMAIN right_masked |->
                            FilteredTrimmed(right_masked[i], cv.offset_row_col)]
    /\ pc' = "computes_cross_supports"
    /\ UNCHANGED <<patch, layers, instance, img_left, img_right, img_right_shift, applied,
                   cross_left, cross_right, cv, cost_in, agg, d, layer>>

NextCall ==
    \/ MaskRasters
    \/ PrepareRasters
    \/ Next

SpecCall == InitCall /\ [][NextCall]_vars

(***************************************************************************)
(* cost_volume_aggregation with the layers taken in any order: the body of *)
(* the for statement of lines 133-158, run once per layer along a          *)
(* permutation of range(nb_disp).                                          *)
(***************************************************************************)
Orders(n) == {s \in [1..n -> 0..(n - 1)] : \A i, j \in 1..n : s[i] = s[j] => i = j}

\* The base volume with every cost of the first layer NaN but the one of
\* pixel (1, 1).
LoneVolume ==
    [y \in 0..(Rows - 1) |-> [x \in 0..(Cols - 1) |-> [k \in 0..(NbDisp - 1) |->
        IF k = 0 /\ <<y, x>> # <<1, 1>> THEN <<NaN, 1>> ELSE <<BaseCost(y, x, k), 1>>]]]

\* Cost volumes of the calls: the base volume with one NaN cost, or with a
\* first layer that holds one cost that is not NaN.
OrderVolumes == CallVolumes \cup {LoneVolume}

\* The calls of Init, with these volumes.
InitOrder ==
    /\ pc = "computes_cross_supports"
    /\ cbca_distance \in Distances
    /\ cbca_intensity = CallIntensity
    /\ \E subpix \in Subpixels :
         /\ \E t \in RasterTuples(subpix) :
              /\ left_masked = t[0]
              /\ right_masked = [i \in 0..(subpix - 1) |-> t[i + 1]]
         /\ \E data \in OrderVolumes, first \in DispStarts(subpix) :
              /\ cv = [data |-> data,
                       disp |-> [k \in 0..(NbDisp - 1) |-> first + k],
                       subpixel |-> subpix,
                       cmax |-> Rows * Cols * NbDisp,
                       aggregation |-> "none"]
              /\ cost_in = data
    /\ InstanceOf
    /\ NoDatasets
    /\ cross_left = << >>
    /\ cross_right = << >>
    /\ agg = << >>
    /\ patch = << >>
    /\ layers = << >>
    /\ d = 0
    /\ step1 = << >> /\ step2 = << >> /\ sum2 = << >>
    /\ step3 = << >> /\ step4 = << >> /\ sum4 = << >>

\* Lines 116-131, the for statement iterating over a permutation of the layers.
SeedAnyOrder ==
    /\ pc = "seed"
    /\ agg' = SeedAgg(cv.data, ny_, nx_, nb_disp)
    /\ layers' \in Orders(nb_disp)
    /\ d' = IF nb_disp > 0 THEN layers'[1] ELSE 0
    /\ pc' = IF nb_disp > 0 THEN "step1" ELSE "install"
    /\ UNCHANGED <<patch, inputs, applied, cross_left, cross_right, cv, cost_in, layer>>

NextOrder ==
    \/ Next
    \/ SeedAnyOrder

SpecOrder == InitOrder /\ [][NextOrder]_vars

(***************************************************************************)
(* img_tools.compute_mean_patch and check_inside_image.  The shape of      *)
(* img['im'] is (rows, columns).                                           *)
(***************************************************************************)
\* nx_, ny_ = img['im'].shape; 0 <= x < nx_ and 0 <= y < ny_
check_inside_image(img, x, y) ==
    LET shape0 == NRows(img.im)
        shape1 == NCols(img.im)
    IN  0 <= x /\ x < shape0 /\ 0 <= y /\ y < shape1

\* The indices a slice lo:hi selects on an axis of length n, for lo >= 0.
PySlice(lo, hi, n) == {i \in 0..(n - 1) : lo <= i /\ i < hi}

RECURSIVE SumCells(_, _)
SumCells(im, cells) ==
    IF cells = {} THEN 0
    ELSE LET q == CHOOSE q \in cells : TRUE
         IN  im[q[1]][q[2]] + SumCells(im, cells \ {q})

\* np.mean over a set of cells: the quotient <<sum, count>>, NaN for no cell.
MeanOf(im, cells) ==
    IF cells = {} THEN <<NaN, 1>> ELSE <<SumCells(im, cells), Cardinality(cells)>>

\* int(win_size / 2)
HalfWindow(win_size) == win_size \div 2

\* The outcome of compute_mean_patch: IndexError raised, or the mean of
\* img['im'][begin[1]:end[1] + 1, begin[0]:end[0] + 1].
compute_mean_patch(img, x, y, win_size) ==
    LET begin_window == <<x - HalfWindow(win_size), y - HalfWindow(win_size)>>
        end_window == <<x + HalfWindow(win_size), y + HalfWindow(win_size)>>
    IN  IF /\ check_inside_image(img, begin_window[1], begin_window[2])
           /\ check_inside_image(img, end_window[1], end_window[2])
        THEN [raised |-> FALSE,
              mean |-> MeanOf(img.im,
                              PySlice(begin_window[2], end_window[2] + 1, NRows(img.im))
                                \X PySlice(begin_window[1], end_window[1] + 1, NCols(img.im)))]
        ELSE [raised |-> TRUE, mean |-> << >>]

\* Images of the calls: every shape up to (Rows + 1) x (Cols + 1), every
\* sample its own value.
PatchImage(ny, nx) ==
    Dataset([r \in 0..(ny - 1) |-> [c \in 0..(nx - 1) |-> 1 + r * nx + c]],
            {"im"}, << >>, 0, ImageAttrs)

\* Window sizes of the calls.
WinSizes == {1, 3}

InitPatch ==
    /\ pc = "compute_mean_patch"
    /\ \E ny \in 1..(Rows + 1), nx \in 1..(Cols + 1) : img_left = PatchImage(ny, nx)
    /\ \E x \in (0 - 1)..(Cols + 1), y \in (0 - 1)..(Rows + 1), w \in WinSizes :
         patch = [x |-> x, y |-> y, win_size |-> w, raised |-> FALSE, mean |-> << >>]
    /\ cbca_distance = CBCA_DISTANCE
    /\ cbca_intensity = CBCA_INTENSITY
    /\ InstanceOf
    /\ img_right = << >>
    /\ img_right_shift = << >>
    /\ left_masked = << >>
    /\ right_masked = << >>
    /\ applied = << >>
    /\ cross_left = << >>
    /\ cross_right = << >>
    /\ cv = << >>
    /\ cost_in = << >>
    /\ agg = << >>
    /\ layers = << >>
    /\ d = 0
    /\ step1 = << >> /\ step2 = << >> /\ sum2 = << >>
    /\ step3 = << >> /\ step4 = << >> /\ sum4 = << >>

CallComputeMeanPatch ==
    /\ pc = "compute_mean_patch"
    /\ LET r == compute_mean_patch(img_left, patch.x, patch.y, patch.win_size)
       IN  patch' = [patch EXCEPT !.raised = r.raised, !.mean = r.mean]
    /\ pc' = IF patch'.raised THEN "IndexError" ELSE "returned"
    /\ UNCHANGED <<layers, inputs, applied, cross_left, cross_right, cv, cost_in, agg, d,
                   layer>>

NextPatch == CallComputeMeanPatch

SpecPatch == InitPatch /\ [][NextPatch]_vars

(***************************************************************************)
(* Properties of compute_mean_patch (SpecPatch).                           *)
(***************************************************************************)
PatchDone == pc \in {"IndexError", "returned"}

\* The window of win_size x win_size samples centred at column x, row y,
\* the axes the slice is taken on.
Window == ((patch.y - HalfWindow(patch.win_size))..(patch.y + HalfWindow(patch.win_size)))
            \X ((patch.x - HalfWindow(patch.win_size))..(patch.x + HalfWindow(patch.win_size)))

\* C30 as stated: for every image shape, position and odd window size,
\* compute_mean_patch raises IndexError exactly when the window is not
\* entirely inside the image, and otherwise returns the mean of the
\* win_size * win_size samples of the window.
C30_MeanPatchBounds ==
    PatchDone =>
        /\ patch.raised <=> ~(Window \subseteq PixelsOf(img_left.im))
        /\ ~patch.raised => patch.mean = MeanOf(img_left.im, Window)

(***************************************************************************)
(* cbca_step_1 applied to one row of costs.                                *)
(***************************************************************************)
CostValues == (1..MaxCost) \cup {NaN}

InitStep1 ==
    /\ pc = "step1"
    /\ \E n \in 1..Cols : \E row \in [0..(n - 1) -> CostValues] :
         /\ cv = [data |-> [y \in {0} |-> [x \in 0..(n - 1) |-> [k \in {0} |-> <<row[x], 1>>]]],
                  disp |-> [k \in {0} |-> 0],
                  subpixel |-> 1,
                  cmax |-> MaxCost,
                  aggregation |-> "none"]
         /\ cost_in = cv.data
    /\ left_masked = << >>
    /\ right_masked = << >>
    /\ cbca_distance = CBCA_DISTANCE
    /\ cbca_intensity = CallIntensity
    /\ InstanceOf
    /\ NoDatasets
    /\ cross_left = << >>
    /\ cross_right = << >>
    /\ agg = << >>
    /\ patch = << >>
    /\ layers = << >>
    /\ d = 0
    /\ step1 = << >> /\ step2 = << >> /\ sum2 = << >>
    /\ step3 = << >> /\ step4 = << >> /\ sum4 = << >>

NextStep1 == Step1

SpecStep1 == InitStep1 /\ [][NextStep1]_vars

(***************************************************************************)
(* Properties of cbca_step_1 (SpecStep1).                                  *)
(***************************************************************************)
\* Sum of the non-NaN costs of row among columns 0..i.
RECURSIVE PrefixSum(_, _)
PrefixSum(row, i) ==
    IF i < 0 THEN 0
    ELSE PrefixSum(row, i - 1) + (IF row[i][0][1] = NaN THEN 0 ELSE row[i][0][1])

Step1Done == pc = "step2"

\* C9 as stated: a row of n costs gives n + 1 values, the zero sentinel at
\* index 0 and at index i + 1 the sum of the non-NaN costs of columns 0..i.
C9_Original ==
    Step1Done =>
        \A y \in DOMAIN cost_in :
            LET n == Cardinality(DOMAIN cost_in[y])
            IN  /\ DOMAIN step1[y] = 0..n
                /\ step1[y][0] = 0
                /\ \A i \in 0..(n - 1) : step1[y][i + 1] = PrefixSum(cost_in[y], i)

\* C9 amended: a row of n costs gives n + 1 values; the value at index i < n
\* is the sum of the non-NaN costs of columns 0..i, and the zero sentinel is
\* the last value (index n, the one index -1 designates): [3, NaN, 2] gives
\* [3, 3, 5, 0].
C9_TrailingSentinel ==
    Step1Done =>
        \A y \in DOMAIN cost_in :
            LET n == Cardinality(DOMAIN cost_in[y])
            IN  /\ DOMAIN step1[y] = 0..n
                /\ step1[y][n] = 0
                /\ \A i \in 0..(n - 1) : step1[y][i] = PrefixSum(cost_in[y], i)

\* The row [3, NaN, 2] has been integrated into [3, 3, 5, 0].
C9_Witness ==
    /\ Step1Done
    /\ DOMAIN cost_in[0] = 0..2
    /\ cost_in[0][0][0][1] = 3 /\ cost_in[0][1][0][1] = NaN /\ cost_in[0][2][0][1] = 2
    /\ step1[0] = [x \in 0..3 |-> CASE x = 0 -> 3 [] x = 1 -> 3 [] x = 2 -> 5 [] x = 3 -> 0]

(***************************************************************************)
(* Properties of cost_volume_aggregation (Spec).                           *)
(***************************************************************************)
Done == pc = "done"

LayerIds == DOMAIN cv.disp

\* The right tensor, the valid columns and the matched right column of layer k.
RightOf(k) == cross_right[IRight(cv.disp[k], cv.subpixel)]
ValidOf(k) == ValidCols(NCols(cross_left), cv.disp[k], cv.subpixel, NCols(RightOf(k)))
MatchOf(k, c) == RightCol(c, cv.disp[k], cv.subpixel)

\* Combined arm of pixel (y, c) in layer k: the smaller of the two images'.
Combined(k, y, c, dir) == Min(cross_left[y][c][dir], RightOf(k)[y][MatchOf(k, c)][dir])

\* The cross-shaped region of pixel (y, c) in layer k.
Region(k, y, c) ==
    {q \in PixelsOf(cross_left) :
        /\ y - Combined(k, y, c, 2) <= q[1] /\ q[1] <= y + Combined(k, y, c, 3)
        /\ c - Combined(k, q[1], c, 0) <= q[2] /\ q[2] <= c + Combined(k, q[1], c, 1)}

RECURSIVE CostSum(_, _)
\* Sum of the input costs of layer k over a set of cells.
CostSum(k, cells) ==
    IF cells = {} THEN 0
    ELSE LET q == CHOOSE q \in cells : TRUE
         IN  cost_in[q[1]][q[2]][k][1] + CostSum(k, cells \ {q})

NoNaNLayer(k) == \A q \in PixelsOf(cost_in) : cost_in[q[1]][q[2]][k][1] # NaN

\* Two float32 cells hold the same value (both NaN, or equal quotients).
SameValue(a, b) ==
    IF a[1] = NaN \/ b[1] = NaN THEN a[1] = NaN /\ b[1] = NaN
    ELSE a[1] * b[2] = b[1] * a[2]

\* C1: in a layer without NaN, the output at every pixel of a valid column
\* is the sum of the input costs over its cross-shaped region divided by
\* the number of cells of that region.
C1_MeanOverRegion ==
    Done =>
        \A k \in LayerIds : NoNaNLayer(k) =>
            \A c \in ValidOf(k) : \A y \in DOMAIN cost_in :
                LET cells == Region(k, y, c)
                IN  cv.data[y][c][k] = <<CostSum(k, cells), Cardinality(cells)>>

\* A pixel with rows above and below it in its region, two rows of which
\* have windows of different widths.
C1_Witness ==
    /\ Done
    /\ \E k \in LayerIds : \E c \in ValidOf(k) : \E y \in DOMAIN cost_in :
         /\ NoNaNLayer(k)
         /\ Combined(k, y, c, 2) >= 1 /\ Combined(k, y, c, 3) >= 1
         /\ Combined(k, y - 1, c, 0) + Combined(k, y - 1, c, 1)
              # Combined(k, y + 1, c, 0) + Combined(k, y + 1, c, 1)
         /\ cv.data[y][c][k][2] = Cardinality(Region(k, y, c))
         /\ cv.data[y][c][k][2] > 3

\* C2 as stated: a cell of a column outside the valid set of its layer
\* keeps its input cost.
C2_Original ==
    Done =>
        \A k \in LayerIds : \A c \in DOMAIN cost_in[0] : \A y \in DOMAIN cost_in :
            c \notin ValidOf(k) => SameValue(cv.data[y][c][k], cost_in[y][c][k])

\* C2 amended: a cell of a column outside the valid set of its layer is NaN
\* in the output if its input cost is NaN, and 0 otherwise.
C2_InvalidColumnsCleared ==
    Done =>
        \A k \in LayerIds : \A c \in DOMAIN cost_in[0] : \A y \in DOMAIN cost_in :
            c \notin ValidOf(k) =>
                cv.data[y][c][k] = <<IF cost_in[y][c][k][1] = NaN THEN NaN ELSE 0, 1>>

\* A layer with a column outside its valid set whose finite input costs have
\* become 0, and another column that is aggregated.
C2_Witness ==
    /\ Done
    /\ \E k \in LayerIds : \E c \in DOMAIN cost_in[0] : \E y \in DOMAIN cost_in :
         /\ c \notin ValidOf(k) /\ ValidOf(k) # {}
         /\ cost_in[y][c][k][1] > 0
         /\ cv.data[y][c][k] = <<0, 1>>

\* C3: every cell that is NaN in the input volume is NaN in the output,
\* in a valid column or not.
C3_NaNKept ==
    Done =>
        \A k \in LayerIds : \A c \in DOMAIN cost_in[0] : \A y \in DOMAIN cost_in :
            cost_in[y][c][k][1] = NaN => cv.data[y][c][k][1] = NaN

\* A NaN input cell of a valid column, inside the region of a neighbour
\* whose output is finite, is NaN in the output.
C3_Witness ==
    /\ Done
    /\ \E k \in LayerIds : \E c \in ValidOf(k) : \E y \in DOMAIN cost_in :
         /\ cost_in[y][c][k][1] = NaN
         /\ cv.data[y][c][k][1] = NaN
         /\ \E q \in PixelsOf(cost_in) :
              /\ q[2] \in ValidOf(k) /\ q # <<y, c>>
              /\ <<y, c>> \in Region(k, q[1], q[2])
              /\ cv.data[q[1]][q[2]][k][1] # NaN

\* The maximal cost of the input volume.
CmaxIn == Rows * Cols * NbDisp

\* C10: after the call the aggregation tag is "cbca" and the maximal cost is
\* the input's times (2 * cbca_distance - 1) squared.
C10_TagAndCmax ==
    Done =>
        /\ cv.aggregation = "cbca"
        /\ cv.cmax = CmaxIn * (2 * cbca_distance - 1) * (2 * cbca_distance - 1)

\* With the default cbca_distance = 5 the multiplier is 81.
C10_Witness ==
    /\ Done
    /\ cbca_distance = 5
    /\ cv.aggregation = "cbca"
    /\ cv.cmax = 81 * CmaxIn

(***************************************************************************)
(* Properties of the passes of one layer (Spec).                           *)
(***************************************************************************)
Step2Done == pc = "step3"

Step4Done == pc = "add_anchor"

RECURSIVE RowSum(_, _, _, _)
\* Sum of the non-NaN input costs of row y of layer k over columns lo..hi.
RowSum(k, y, lo, hi) ==
    IF lo > hi THEN 0
    ELSE (IF cost_in[y][lo][k][1] = NaN THEN 0 ELSE cost_in[y][lo][k][1])
           + RowSum(k, y, lo + 1, hi)

\* C17: after step 2 of layer d, for every row y and valid column c, with
\* left and right the smaller of the two images' arms, step2 at (y, c) is
\* the sum of the non-NaN input costs of row y over columns
\* c - left .. c + right, and the horizontal count is left + right.
C17_HorizontalWindow ==
    Step2Done =>
        \A y \in DOMAIN cost_in : \A c \in ValidOf(d) :
            /\ step2[y][c] = RowSum(d, y, c - Combined(d, y, c, 0), c + Combined(d, y, c, 1))
            /\ sum2[y][c] = Combined(d, y, c, 0) + Combined(d, y, c, 1)

\* A window that starts at column 0 (the lookup index is -1), holds a NaN
\* cost, and was cut on its right by the right image's arm.
C17_Witness ==
    /\ Step2Done
    /\ \E y \in DOMAIN cost_in : \E c \in ValidOf(d) :
         /\ Combined(d, y, c, 0) >= 1 /\ c - Combined(d, y, c, 0) = 0
         /\ Combined(d, y, c, 1) < cross_left[y][c][1]
         /\ \E x \in 0..c : cost_in[y][x][d][1] = NaN
         /\ step2[y][c] = RowSum(d, y, 0, c + Combined(d, y, c, 1))
         /\ step2[y][c] > 0

RECURSIVE CountSum(_, _, _)
\* Sum of the horizontal counts of column c over rows lo..hi.
CountSum(c, lo, hi) == IF lo > hi THEN 0 ELSE sum2[lo][c] + CountSum(c, lo + 1, hi)

\* C18: after step 4 of layer d, for every row y and valid column c with
\* combined vertical arms top and bot, the count is the horizontal count of
\* row y plus top + bot plus the horizontal counts of rows y - top .. y - 1
\* and y + 1 .. y + bot, and the count plus 1 is the number of cells of the
\* stacked horizontal windows of rows y - top .. y + bot.
C18_StackedCount ==
    Step4Done =>
        \A y \in DOMAIN cost_in : \A c \in ValidOf(d) :
            LET top == Combined(d, y, c, 2)
                bot == Combined(d, y, c, 3)
            IN  /\ sum4[y][c] = sum2[y][c] + top + bot
                                  + CountSum(c, y - top, y - 1) + CountSum(c, y + 1, y + bot)
                /\ sum4[y][c] + 1 = Cardinality(Region(d, y, c))

\* A pixel with a row above and a row below in its stack, whose windows
\* have different widths.
C18_Witness ==
    /\ Step4Done
    /\ \E y \in DOMAIN cost_in : \E c \in ValidOf(d) :
         /\ Combined(d, y, c, 2) >= 1 /\ Combined(d, y, c, 3) >= 1
         /\ sum2[y - 1][c] # sum2[y + 1][c]
         /\ sum4[y][c] + 1 = Cardinality(Region(d, y, c))

\* The cells of the region of (y, c) in layer k whose input cost is not NaN.
Contributing(k, y, c) == {q \in Region(k, y, c) : cost_in[q[1]][q[2]][k][1] # NaN}

\* C19 as stated: at every pixel of a valid column the divisor is the
\* number of cells of the support region that contributed to the sum; the
\* cells whose input cost is NaN are not counted.
C19_DivisorCountsContributors ==
    Done =>
        \A k \in LayerIds : \A c \in ValidOf(k) : \A y \in DOMAIN cost_in :
            cv.data[y][c][k][2] = Cardinality(Contributing(k, y, c))

(***************************************************************************)
(* Properties of the layers taken in any order (SpecOrder).                *)
(***************************************************************************)
\* The passes of the layers have started.
InLayers == pc \in {"step1", "step2", "step3", "step4", "add_anchor", "normalize",
                    "install", "done"}

\* Layer k has been written to agg.
ProcessedLayer(k) ==
    pc \in {"install", "done"} \/ Position(layers, k) < Position(layers, d)

\* The cell agg was seeded with: NaN for a NaN input cost, 0 otherwise.
SeedCell(k, y, c) == <<IF cost_in[y][c][k][1] = NaN THEN NaN ELSE 0, 1>>

\* The aggregated cell of layer k, from the input costs of layer k, the
\* disparity of layer k and the two cross support tensors alone.
LayerCell(k, y, c) ==
    IF c \notin ValidOf(k) \/ cost_in[y][c][k][1] = NaN THEN SeedCell(k, y, c)
    ELSE <<CostSum(k, Contributing(k, y, c)), Cardinality(Region(k, y, c))>>

\* A layer has just been written to agg.
LayerWritten == pc \in {"step1", "install"} /\ ProcessedLayer(layers[1])

\* The layer written last.
LastWritten ==
    IF pc = "install" THEN layers[Len(layers)] ELSE layers[Position(layers, d) - 1]

MatchedSample(k, y, c) ==
    right_masked[IRight(cv.disp[k], cv.subpixel)][y][MatchOf(k, c)]

\* C28: when the call is done, for every layer and every pixel (y, c) of a
\* valid column whose left sample or matched right sample is not finite, the
\* four combined arms are 0, the divisor is 1 and the output cost is the
\* input cost (NaN for a NaN input).
C28_InvalidPixelKeepsCost ==
    Done =>
        \A k \in LayerIds : \A c \in ValidOf(k) : \A y \in 0..(ny_ - 1) :
            (left_masked[y][c] = Inf \/ MatchedSample(k, y, c) = Inf) =>
                /\ \A dir \in 0..3 : Combined(k, y, c, dir) = 0
                /\ Region(k, y, c) = {<<y, c>>}
                /\ cv.data[y][c][k][2] = 1
                /\ SameValue(cv.data[y][c][k], cost_in[y][c][k])

\* A pixel whose left sample is finite with arms in the left tensor, whose
\* matched right sample is not finite: it keeps its finite cost, while a
\* pixel of the same layer was averaged over several cells.
C28_Witness ==
    /\ Done
    /\ \E k \in LayerIds : \E c \in ValidOf(k) : \E y \in 0..(ny_ - 1) :
         /\ left_masked[y][c] # Inf
         /\ MatchedSample(k, y, c) = Inf
         /\ cross_left[y][c][1] >= 1 /\ cross_left[y][c][3] >= 1
         /\ cost_in[y][c][k][1] # NaN
         /\ cv.data[y][c][k] = <<cost_in[y][c][k][1], 1>>
         /\ \E q \in PixelsOf(cost_in) : q[2] \in ValidOf(k) /\ cv.data[q[1]][q[2]][k][2] > 1

\* The divisors of layer d are about to be used.
Dividing == pc = "normalize"

\* C29: the divisor of every pixel of every layer, in a valid column or
\* not, is at least 1 when the division runs, and when the call is done
\* every cell whose input cost is a number holds a number over a divisor of
\* at least 1, whatever the other costs of its region are.
C29_DivisorAtLeastOne ==
    /\ Dividing =>
          \A y \in 0..(ny_ - 1) : \A x \in 0..(nx_ - 1) : sum4[y][x] >= 1
    /\ Done =>
          \A k \in LayerIds : \A y \in 0..(ny_ - 1) : \A x \in 0..(nx_ - 1) :
              /\ cv.data[y][x][k][2] >= 1
              /\ cost_in[y][x][k][1] # NaN => cv.data[y][x][k][1] # NaN

\* A cell of a valid column whose cost is the only number of its region,
\* which holds several cells: its output is that cost over the size of the
\* region; a column of the same layer is outside the valid set and was
\* divided by 1.
C29_Witness ==
    /\ Done
    /\ \E k \in LayerIds : \E c \in ValidOf(k) : \E y \in 0..(ny_ - 1) :
         /\ cost_in[y][c][k][1] # NaN
         /\ Cardinality(Region(k, y, c)) > 1
         /\ Contributing(k, y, c) = {<<y, c>>}
         /\ cv.data[y][c][k] = <<cost_in[y][c][k][1], Cardinality(Region(k, y, c))>>
         /\ \E x \in 0..(nx_ - 1) : x \notin ValidOf(k) /\ cv.data[y][x][k][2] = 1

(***************************************************************************)
(* Properties of a repeated call (SpecTwice).                              *)
(***************************************************************************)
TwiceDone == pc = "done" /\ Len(applied) = 2

\* Two datasets hold the same cost values and the same metadata.
SameVolume(a, b) ==
    /\ a.aggregation = b.aggregation
    /\ a.cmax = b.cmax
    /\ a.disp = b.disp
    /\ a.subpixel = b.subpixel
    /\ \A y \in DOMAIN a.data : \A x \in DOMAIN a.data[y] : \A k \in DOMAIN a.data[y][x] :
           SameValue(a.data[y][x][k], b.data[y][x][k])

\* C12 as stated: the volume after the second call differs, in its cost
\* values or its metadata, from the volume after the first call.
C12_Original == TwiceDone => ~SameVolume(applied[1], applied[2])

\* C12 amended: with cbca_distance >= 2 the second call multiplies the
\* (non-zero) maximal cost by (2 * cbca_distance - 1) squared again, so the
\* volume differs from the one the first call left; with cbca_distance = 1
\* the second call changes neither the tag nor the maximal cost.
C12_SecondCallScalesCmax ==
    TwiceDone =>
        /\ applied[2].aggregation = applied[1].aggregation
        /\ applied[2].cmax =
              applied[1].cmax * (2 * cbca_distance - 1) * (2 * cbca_distance - 1)
        /\ cbca_distance >= 2 => ~SameVolume(applied[1], applied[2])
        /\ cbca_distance = 1 => applied[2].cmax = applied[1].cmax

\* A second call with cbca_distance = 2 on a volume of zeros: the cost
\* values are those the first call left, and the maximal cost is 9 times
\* larger.
C12_Witness ==
    /\ TwiceDone
    /\ cbca_distance = 2
    /\ \A y \in DOMAIN cost_in : \A x \in DOMAIN cost_in[y] : \A k \in DOMAIN cost_in[y][x] :
           /\ cost_in[y][x][k][1] = 0
           /\ SameValue(applied[1].data[y][x][k], applied[2].data[y][x][k])
    /\ applied[2].cmax = 9 * applied[1].cmax
    /\ applied[1].cmax > 0

(***************************************************************************)
(* Properties of a call on image datasets (SpecCall).                      *)
(***************************************************************************)
\* The right image has been shifted.
Shifted == pc # "call"

\* The cross supports have been built.
Built == pc \notin {"call", "filter", "computes_cross_supports"}

InRange(i, n) == 0 <= i /\ i < n

\* C11: once the tensors are built, every index cost_volume_aggregation
\* uses is in bounds: the left tensor has the shape of the cost volume, and
\* for every layer the variant index is below the number of right tensors,
\* every valid column is matched with a column of the selected right
\* tensor, c + right <= cols - 1, c - left - 1 >= -1, y + bot <= rows - 1
\* and y - top - 1 >= -1; and when step 2 (step 4) is about to run, index
\* -1 of step1 (step3) designates a zero.
C11_AccessesInBounds ==
    Built =>
        /\ NRows(cross_left) = ny_ /\ NCols(cross_left) = nx_
        /\ \A k \in LayerIds :
             /\ InRange(IRight(cv.disp[k], cv.subpixel), Cardinality(DOMAIN cross_right))
             /\ NRows(RightOf(k)) = ny_
             /\ \A c \in ValidOf(k) :
                  /\ InRange(c, nx_)
                  /\ InRange(MatchOf(k, c), NCols(RightOf(k)))
                  /\ \A y \in 0..(ny_ - 1) :
                       /\ c + Combined(k, y, c, 1) <= nx_ - 1
                       /\ c - Combined(k, y, c, 0) - 1 >= 0 - 1
                       /\ y + Combined(k, y, c, 3) <= ny_ - 1
                       /\ y - Combined(k, y, c, 2) - 1 >= 0 - 1
        /\ pc = "step2" =>
             \A y \in 0..(ny_ - 1) :
                 DOMAIN step1[y] = 0..nx_ /\ step1[y][Wrap(0 - 1, nx_ + 1)] = 0
        /\ pc = "step4" =>
             /\ DOMAIN step3 = 0..ny_
             /\ \A c \in 0..(nx_ - 1) : step3[Wrap(0 - 1, ny_ + 1)][c] = 0

\* A completed call with a border offset, four variants and a NaN cost, in
\* which a layer of negative fractional disparity selected the last variant
\* and matched a column with the last column of that variant, and the
\* window of a pixel right of column 0 started at column 0.
C11_Witness ==
    /\ Done
    /\ cv.offset_row_col = 1 /\ cv.subpixel = 4
    /\ cost_in[0][0][0][1] = NaN
    /\ \E k \in LayerIds : \E c \in ValidOf(k) :
         /\ cv.disp[k] < 0
         /\ IRight(cv.disp[k], cv.subpixel) = 3
         /\ MatchOf(k, c) = NCols(RightOf(k)) - 1
    /\ \E k \in LayerIds : \E c \in ValidOf(k) : \E y \in 0..(ny_ - 1) :
         Combined(k, y, c, 0) = c /\ c >= 1

\* C16 as stated: for a right image with a mask and a subpixel factor of 2
\* or 4, every dataset of the list shift_right_img returns carries a mask.
C16_Original ==
    (Shifted /\ "msk" \in img_right.data_vars /\ cv.subpixel \in {2, 4}) =>
        \A i \in DOMAIN img_right_shift : "msk" \in img_right_shift[i].data_vars

\* C16 amended: for a right image with a mask and a subpixel factor of 2 or
\* 4, the list holds as many datasets as the factor; the first is the right
\* image itself, with its mask, and every resampled dataset holds the
\* samples "im" only, one column less than the image, and no mask.
C16_OnlyFirstCarriesMask ==
    (Shifted /\ "msk" \in img_right.data_vars /\ cv.subpixel \in {2, 4}) =>
        /\ DOMAIN img_right_shift = 0..(cv.subpixel - 1)
        /\ img_right_shift[0] = img_right
        /\ \A i \in 1..(cv.subpixel - 1) :
             /\ img_right_shift[i].data_vars = {"im"}
             /\ NRows(img_right_shift[i].im) = NRows(img_right.im)
             /\ NCols(img_right_shift[i].im) = NCols(img_right.im) - 1

\* A right image whose mask has a pixel that is not valid, shifted with a
\* factor of 4: the first dataset carries the mask, the third does not.
C16_Witness ==
    /\ Shifted
    /\ cv.subpixel = 4
    /\ "msk" \in img_right.data_vars
    /\ \E q \in PixelsOf(img_right.im) : img_right.msk[q[1]][q[2]] # 0
    /\ "msk" \in img_right_shift[0].data_vars
    /\ "msk" \notin img_right_shift[2].data_vars

\* The fractional part of a disparity of n subpixel steps, in subpixel
\* steps: n minus s times the floor of n / s.
FracSteps(n, s) ==
    IF n >= 0 THEN n - s * (n \div s)
    ELSE LET m == (0 - n) - s * ((0 - n) \div s)
         IN  IF m = 0 THEN 0 ELSE s - m

\* C20: a call with subpixel factor s in {1, 2, 4} builds one left tensor
\* and s right tensors, one per dataset of the shifted list; for every
\* layer the variant index is the fractional part of the disparity times s,
\* it lies in 0..s-1, and the dataset it designates is shifted by that
\* fractional part (d - floor(d)) of a column.
C20_VariantSelection ==
    Built =>
        /\ cv.subpixel \in {1, 2, 4}
        /\ DOMAIN cross_left = 0..(ny_ - 1)
        /\ \A y \in 0..(ny_ - 1) : \A x \in DOMAIN cross_left[y] :
               DOMAIN cross_left[y][x] = 0..3
        /\ DOMAIN img_right_shift = 0..(cv.subpixel - 1)
        /\ DOMAIN cross_right = 0..(cv.subpixel - 1)
        /\ \A k \in LayerIds :
             LET i == IRight(cv.disp[k], cv.subpixel)
             IN  /\ i \in 0..(cv.subpixel - 1)
                 /\ i = FracSteps(cv.disp[k], cv.subpixel)
                 /\ (img_right_shift[i].col[0] - img_right.col[0]) * cv.subpixel
                       = 4 * FracSteps(cv.disp[k], cv.subpixel)
                 /\ NCols(cross_right[i]) = NCols(img_right_shift[i].im) - 2 * cv.offset_row_col

\* A call with four variants and a layer of disparity -1/4: the variant of
\* index 3 is selected, and it is shifted by 3/4 of a column.
C20_Witness ==
    /\ Built
    /\ cv.subpixel = 4
    /\ \E k \in LayerIds :
         /\ cv.disp[k] = 0 - 1
         /\ IRight(cv.disp[k], cv.subpixel) = 3
         /\ img_right_shift[3].col[0] - img_right.col[0] = 3

\* Column count of the right tensor a layer of disparity n / s selects: the
\* width of the cost volume when the disparity is whole, one less otherwise.
SelectedWidth(n, s) == IF FracSteps(n, s) = 0 THEN nx_ ELSE nx_ - 1

\* The columns c of the cost volume with 0 <= c + n / s < w.
ColumnsInside(n, s, w) == {c \in 0..(nx_ - 1) : 0 <= c * s + n /\ c * s + n < w * s}

\* floor(c + n / s) for c + n / s >= 0.
FloorOfSum(c, n, s) == CHOOSE q \in 0..(c * s + n) : q * s <= c * s + n /\ c * s + n < (q + 1) * s

C23_InstalledAtEnd ==
    /\ ~Done =>
         /\ cv.data = cost_in
         /\ cv.aggregation = "none"
         /\ cv.cmax = CmaxIn
    /\ pc \in {"step2", "step3", "step4", "add_anchor", "normalize"} =>
         step1 = cbca_step_1(Layer(cost_in, ny_, nx_, d), ny_, nx_)
    /\ pc \in {"install", "done"} =>
         /\ Len(layers) = nb_disp
         /\ d = nb_disp
    /\ Done =>
         /\ cv.aggregation = "cbca"
         /\ cv.cmax = NewCmax(CmaxIn, cbca_distance)
         /\ \A y \in 0..(ny_ - 1) : \A x \in 0..(nx_ - 1) : \A k \in 0..(nb_disp - 1) :
                cv.data[y][x][k] = agg[k][x][y]

\* The last layer has been computed and nothing is installed yet: agg holds
\* a value that differs from the input cost, and the volume is the input.
C23_Witness ==
    /\ pc = "install"
    /\ cv.data = cost_in /\ cv.aggregation = "none" /\ cv.cmax = CmaxIn
    /\ \E y \in 0..(ny_ - 1) : \E x \in 0..(nx_ - 1) : \E k \in 0..(nb_disp - 1) :
         /\ agg[k][x][y][2] > 1
         /\ ~SameValue(agg[k][x][y], cost_in[y][x][k])

\* The tensors of all the prepared rasters.
TensorsBuilt ==
    /\ cross_left = cross_support(left_masked, NRows(left_masked), NCols(left_masked),
                                  cbca_distance, cbca_intensity)
    /\ DOMAIN cross_right = 0..(cv.subpixel - 1)
    /\ \A i \in DOMAIN cross_right :
           cross_right[i] = cross_support(right_masked[i], NRows(right_masked[i]),
                                          NCols(right_masked[i]), cbca_distance,
                                          cbca_intensity)

\* One step of the call, seen from the place it starts at.
PassStep ==
    /\ Built => (cross_left' = cross_left /\ cross_right' = cross_right)
    /\ pc = "computes_cross_supports" => pc' = "seed"
    /\ pc = "seed" => (pc' = "step1" /\ d' = 0 /\ TensorsBuilt)
    /\ pc = "step1" =>
         /\ pc' = "step2" /\ d' = d
         /\ step1' = cbca_step_1(Layer(cost_in, ny_, nx_, d), ny_, nx_)
    /\ pc = "step2" =>
         /\ pc' = "step3" /\ d' = d
         /\ step2' = cbca_step_2(step1, cross_left, cross_right[i_right], ny_, nx_,
                                 valid_index, cv.disp[d], cv.subpixel).step2
    /\ pc = "step3" =>
         /\ pc' = "step4" /\ d' = d
         /\ step3' = cbca_step_3(step2, ny_, nx_)
    /\ pc = "step4" =>
         /\ pc' = "add_anchor" /\ d' = d
         /\ step4' = cbca_step_4(step3, sum2, cross_left, cross_right[i_right], ny_, nx_,
                                 valid_index, cv.disp[d], cv.subpixel).step4
    /\ pc = "add_anchor" =>
         /\ pc' = "normalize" /\ d' = d
         /\ \A y \in 0..(ny_ - 1) : \A x \in 0..(nx_ - 1) : sum4'[y][x] = sum4[y][x] + 1
    /\ pc = "normalize" =>
         /\ d' = d + 1
         /\ pc' = IF d + 1 < nb_disp THEN "step1" ELSE "install"
         /\ \A y \in 0..(ny_ - 1) : \A x \in 0..(nx_ - 1) :
                agg'[d][x][y] = <<FAdd(agg[d][x][y][1], step4[y][x]),
                                  agg[d][x][y][2] * sum4[y][x]>>
    /\ pc = "install" => pc' = "done"

\* C24: the left tensor and the right tensor of every variant are built
\* before step 1 of the first layer and never change afterwards; the passes
\* of a layer follow one another in the order step 1, step 2, step 3, step
\* 4, add 1 to the count, divide, each computed from what the one before it
\* left; the layers are taken in the order 0, 1, ..., each once, and the
\* installation follows the last one.
C24_PassesInOrder == [][PassStep]_vars

\* The second layer is about to start: the four right tensors and the left
\* tensor are built, the first layer has been normalized with a count that
\* includes the anchor.
C24_Witness ==
    /\ pc = "step1" /\ d = 1
    /\ cv.subpixel = 4 /\ TensorsBuilt
    /\ \E y \in 0..(ny_ - 1) : \E x \in 0..(nx_ - 1) :
         /\ sum4[y][x] > 1
         /\ agg[0][x][y] = <<step4[y][x], sum4[y][x]>>

\* The filtered rasters before the border offset is removed.
FullLeft == PreparedLeft(img_left, 0)
FullRight(i) == PreparedRight(img_right, img_right_shift, i, 0)

\* The tensor t describes the raster full with o rows and o columns removed
\* from each side: it has the shape of that raster, it is the cross support
\* of that raster, and its arms stay inside it.
TensorOfTrimmed(t, full, o) ==
    LET ny == NRows(full) - 2 * o
        nx == NCols(full) - 2 * o
        cut == [y \in 0..(ny - 1) |-> [x \in 0..(nx - 1) |-> full[y + o][x + o]]]
    IN  /\ DOMAIN t = 0..(ny - 1)
        /\ \A y \in 0..(ny - 1) : DOMAIN t[y] = 0..(nx - 1)
        /\ t = cross_support(cut, ny, nx, cbca_distance, cbca_intensity)
        /\ \A y \in 0..(ny - 1) : \A x \in 0..(nx - 1) : \A dir \in 0..3 :
               t[y][x][dir] <= Dist(ny, nx, y, x, dir)

\* C25: when the tensors have been built for a border offset o, the left
\* tensor and the right tensor of every variant are the cross supports of
\* the filtered raster with o rows and o columns removed from each side
\* (the whole raster when o = 0): index (y, x) describes pixel (y + o, x + o),
\* the left tensor has the row and column counts of the cost volume, and
\* every arm is at most the distance to the border of the trimmed raster.
C25_OffsetTrimmed ==
    pc = "seed" =>
        /\ TensorOfTrimmed(cross_left, FullLeft, cv.offset_row_col)
        /\ NRows(cross_left) = ny_ /\ NCols(cross_left) = nx_
        /\ NRows(FullLeft) = NRows(img_left.im) /\ NCols(FullLeft) = NCols(img_left.im)
        /\ \A i \in DOMAIN img_right_shift :
             /\ TensorOfTrimmed(cross_right[i], FullRight(i), cv.offset_row_col)
             /\ NRows(FullRight(i)) = NRows(img_right_shift[i].im)
             /\ NCols(FullRight(i)) = NCols(img_right_shift[i].im)

\* A call with offset 1: the pixel of the left tensor at index (0, 0) has no
\* arm to the left or upwards although pixel (1, 1) of the raster it
\* describes has finite neighbours on both sides, and its arm to the right
\* stops at the border of the trimmed raster.
C25_Witness ==
    /\ pc = "seed"
    /\ cv.offset_row_col = 1
    /\ cbca_distance = CBCA_DISTANCE
    /\ FullLeft[1][0] = 0 /\ FullLeft[0][1] = 0 /\ FullLeft[1][1] = 0
    /\ cross_left[0][0][0] = 0 /\ cross_left[0][0][2] = 0
    /\ cross_left[0][0][1] = nx_ - 1
    /\ FullLeft[1][nx_ + 1] = 0

\* The rasters have been masked and not yet filtered.
Masked == pc = "filter"

\* The mask of the right image at (y, x) is not the code of a valid pixel.
NotValid(y, x) == img_right.msk[y][x] # img_right.attrs["valid_pixels"]

\* C26: when the rasters have been masked and not yet filtered, for a right
\* image with a mask, sample (y, j) of every fractional-shift variant is NaN
\* if and only if the mask at (y, j) or at (y, j + 1) is not the valid code,
\* and sample (y, j) of the unshifted variant is NaN if and only if the mask
\* at (y, j) is not the valid code; the other samples are those of the
\* shifted rasters; for a right image without mask every raster is the
\* shifted raster itself and holds no NaN.
C26_ShiftedMask ==
    Masked =>
        \A i \in DOMAIN img_right_shift :
            LET im == img_right_shift[i].im
            IN  /\ DOMAIN right_masked[i] = DOMAIN im
                /\ \A y \in DOMAIN im :
                     /\ DOMAIN right_masked[i][y] = DOMAIN im[y]
                     /\ \A j \in DOMAIN im[y] :
                          IF "msk" \in img_right.data_vars
                          THEN LET marked == IF i = 0 THEN NotValid(y, j)
                                             ELSE NotValid(y, j) \/ NotValid(y, j + 1)
                               IN  /\ right_masked[i][y][j] = NaN <=> marked
                                   /\ ~marked => right_masked[i][y][j] = im[y][j]
                          ELSE /\ right_masked[i][y][j] = im[y][j]
                               /\ right_masked[i][y][j] # NaN

\* A right image whose mask marks one pixel, of a column that is neither
\* the first nor the last, with four variants: the unshifted raster has one
\* NaN, and the variant shifted by 3/4 of a column has two, the samples
\* interpolated from the marked pixel and each of its two neighbours.
C26_Witness ==
    /\ Masked
    /\ cv.subpixel = 4
    /\ "msk" \in img_right.data_vars
    /\ \E y \in DOMAIN img_right.im : \E x \in 1..(NCols(img_right.im) - 2) :
         /\ NotValid(y, x)
         /\ \A q \in PixelsOf(img_right.im) : NotValid(q[1], q[2]) => q = <<y, x>>
         /\ right_masked[0][y][x] = NaN
         /\ right_masked[0][y][x - 1] # NaN /\ right_masked[0][y][x + 1] # NaN
         /\ right_masked[3][y][x - 1] = NaN /\ right_masked[3][y][x] = NaN
         /\ \A j \in DOMAIN right_masked[3][y] :
                j \notin {x - 1, x} => right_masked[3][y][j] # NaN

(***************************************************************************)
(* Properties of the construction (SpecConf).                              *)
(***************************************************************************)
Constructing == pc = "init"

Failed == pc = "error"

Supplied(k) == k \in DOMAIN cfg

\* The caller's value of a tuning key is of the documented type and > 0.
GoodIntensity == cfg["cbca_intensity"].type = "float" /\ cfg["cbca_intensity"].num > 0
GoodDistance == cfg["cbca_distance"].type = "int" /\ cfg["cbca_distance"].num > 0

\* The tuning keys the caller supplied are valid.
TuningValid ==
    /\ Supplied("cbca_intensity") => GoodIntensity
    /\ Supplied("cbca_distance") => GoodDistance

\* C13 as stated: an aggregation_method string other than "cbca", with
\* otherwise valid cbca_intensity and cbca_distance, makes the construction
\* fail.
C13_MethodChecked ==
    (/\ ~Constructing
     /\ Supplied("aggregation_method")
     /\ cfg["aggregation_method"].type = "str"
     /\ cfg["aggregation_method"].str # "cbca"
     /\ TuningValid)
        => Failed

\* C14: when the caller's cbca_intensity is not a float or is <= 0, or the
\* caller's cbca_distance is not an int or is <= 0, the constructor fails
\* and sets none of cfg, _cbca_intensity, _cbca_distance; an instance that
\* exists holds a float intensity > 0 and an int distance > 0, so no step of
\* cost_volume_aggregation runs with another value.
C14_InvalidRejected ==
    ~Constructing =>
        /\ ~TuningValid => (Failed /\ attrs = {})
        /\ ~Failed =>
             /\ attrs = AllAttrs
             /\ self_cfg["cbca_intensity"].type = "float"
             /\ self_cfg["cbca_distance"].type = "int"
             /\ cbca_intensity = self_cfg["cbca_intensity"].num /\ cbca_intensity > 0
             /\ cbca_distance = self_cfg["cbca_distance"].num /\ cbca_distance > 0

\* A construction that failed on an integer cbca_intensity, the other keys
\* being valid, and left the instance without attributes.
C14_Witness ==
    /\ Failed
    /\ attrs = {}
    /\ Supplied("aggregation_method") /\ cfg["aggregation_method"] = PyStr("cbca")
    /\ Supplied("cbca_intensity") /\ cfg["cbca_intensity"] = PyInt(1)
    /\ Supplied("cbca_distance") /\ GoodDistance

\* The keys of cbca_intensity and cbca_distance the caller left out.
MissingKeys == {"cbca_intensity", "cbca_distance"} \ DOMAIN cfg

\* C15: when cbca_intensity and/or cbca_distance are absent (the method
\* being a string and the supplied tuning keys valid), the construction
\* succeeds, the stored configuration holds 30.0 and/or 5 for the missing
\* keys and the caller's value for every key supplied.
C15_DefaultsFilled ==
    (/\ ~Constructing
     /\ MissingKeys # {}
     /\ Supplied("aggregation_method") /\ cfg["aggregation_method"].type = "str"
     /\ TuningValid)
        => /\ ~Failed
           /\ "cfg" \in attrs
           /\ "cbca_intensity" \in MissingKeys => self_cfg["cbca_intensity"] = PyFloat(30)
           /\ "cbca_distance" \in MissingKeys => self_cfg["cbca_distance"] = PyInt(5)
           /\ \A k \in DOMAIN cfg : self_cfg[k] = cfg[k]
           /\ DOMAIN self_cfg = SchemaKeys

\* An instance constructed without cbca_distance: the stored distance is 5
\* and the stored intensity is the caller's 1.0.
C15_Witness ==
    /\ pc = "constructed"
    /\ MissingKeys = {"cbca_distance"}
    /\ cfg["cbca_intensity"] = PyFloat(1)
    /\ self_cfg["cbca_distance"] = PyInt(5)
    /\ self_cfg["cbca_intensity"] = PyFloat(1)
    /\ cbca_distance = 5

====
